---- MODULE Spec2Model ----
(***************************************************************************)
(* STTFS: a DSL that describes a directory tree and is materialised by a   *)
(* tree-walking generator (core/generator.py, InteractiveFSGenerator).     *)
(*                                                                         *)
(* Text is a sequence of one-character strings, so that placeholder        *)
(* substitution, pattern matching, str() and int(s, 8) are computed on     *)
(* characters as the Python code computes them.  A Python dict is a        *)
(* sequence of [k, v] records in insertion order.                          *)
(***************************************************************************)
EXTENDS Integers, Sequences, FiniteSets, TLC

(***************************************************************************)
(* Bounds of the model.                                                    *)
(***************************************************************************)
\* largest start / end literal of a generated for-loop header
MaxBound == 2
\* cap on len(values) while the value list of a for-loop is being computed
MaxValues == 4

(***************************************************************************)
(* Text helpers.                                                           *)
(***************************************************************************)
Digits == <<"0", "1", "2", "3", "4", "5", "6", "7", "8", "9">>

UpperAlpha == <<"A","B","C","D","E","F","G","H","I","J","K","L","M",
                "N","O","P","Q","R","S","T","U","V","W","X","Y","Z">>

LowerAlpha == <<"a","b","c","d","e","f","g","h","i","j","k","l","m",
                "n","o","p","q","r","s","t","u","v","w","x","y","z">>

IsDigit(c) == \E d \in 1..10 : Digits[d] = c

DigitVal(c) == (CHOOSE d \in 1..10 : Digits[d] = c) - 1

\* str.lower() on one character
LowerChar(c) ==
    IF \E n \in 1..26 : UpperAlpha[n] = c
    THEN LowerAlpha[CHOOSE n \in 1..26 : UpperAlpha[n] = c]
    ELSE c

\* str.lower()
Lower(s) == [n \in 1..Len(s) |-> LowerChar(s[n])]

RECURSIVE NatToStr(_)
NatToStr(n) ==
    IF n < 10 THEN <<Digits[n + 1]>>
    ELSE NatToStr(n \div 10) \o <<Digits[(n % 10) + 1]>>

\* str(n) of a Python int
IntToStr(n) == IF n < 0 THEN <<"-">> \o NatToStr(0 - n) ELSE NatToStr(n)

\* int(s) succeeds on a NUMBER token's text only when it holds no dot
IsDecimal(s) == Len(s) > 0 /\ \A n \in 1..Len(s) : IsDigit(s[n])

RECURSIVE StrToNat(_)
StrToNat(s) ==
    IF Len(s) = 0 THEN 0
    ELSE 10 * StrToNat(SubSeq(s, 1, Len(s) - 1)) + DigitVal(s[Len(s)])

\* int(s, 8) succeeds: the texts of this model hold digits, letters and dots
IsOctal(s) ==
    Len(s) > 0 /\ \A n \in 1..Len(s) : IsDigit(s[n]) /\ DigitVal(s[n]) < 8

RECURSIVE OctalValue(_)
OctalValue(s) ==
    IF Len(s) = 0 THEN 0
    ELSE 8 * OctalValue(SubSeq(s, 1, Len(s) - 1)) + DigitVal(s[Len(s)])

StartsWith(s, p) == Len(p) <= Len(s) /\ SubSeq(s, 1, Len(p)) = p

\* s with its first n characters dropped
Drop(s, n) == SubSeq(s, n + 1, Len(s))

(***************************************************************************)
(* Python dict, insertion ordered.                                         *)
(***************************************************************************)
HasKey(d, k) == \E n \in 1..Len(d) : d[n].k = k

KeyIndex(d, k) == CHOOSE n \in 1..Len(d) : d[n].k = k

\* d.get(k, default)
DictGet(d, k, default) == IF HasKey(d, k) THEN d[KeyIndex(d, k)].v ELSE default

\* d[k] = v : an existing key keeps its position, a new key goes last
DictSet(d, k, v) ==
    IF HasKey(d, k)
    THEN [d EXCEPT ![KeyIndex(d, k)] = [k |-> k, v |-> v]]
    ELSE Append(d, [k |-> k, v |-> v])

\* del d[k] for a key that is present
DictDel(d, k) ==
    LET n == KeyIndex(d, k)
    IN  SubSeq(d, 1, n - 1) \o SubSeq(d, n + 1, Len(d))

(***************************************************************************)
(* Texts the code names.                                                   *)
(***************************************************************************)
K_content == <<"c", "o", "n", "t", "e", "n", "t">>
K_template == <<"t", "e", "m", "p", "l", "a", "t", "e">>
K_type == <<"t", "y", "p", "e">>
K_replaceifexists ==
    <<"r", "e", "p", "l", "a", "c", "e", "i", "f", "e", "x", "i", "s", "t", "s">>
K_permissions == <<"p", "e", "r", "m", "i", "s", "s", "i", "o", "n", "s">>
K_hidden == <<"h", "i", "d", "d", "e", "n">>
K_executable == <<"e", "x", "e", "c", "u", "t", "a", "b", "l", "e">>
K_encoding == <<"e", "n", "c", "o", "d", "i", "n", "g">>
K_date == <<"d", "a", "t", "e">>
K_time == <<"t", "i", "m", "e">>

T_text == <<"t", "e", "x", "t">>
T_binary == <<"b", "i", "n", "a", "r", "y">>
T_json == <<"j", "s", "o", "n">>
T_yaml == <<"y", "a", "m", "l">>
T_xml == <<"x", "m", "l">>
T_444 == <<"4", "4", "4">>
T_644 == <<"6", "4", "4">>
T_755 == <<"7", "5", "5">>
T_777 == <<"7", "7", "7">>
T_true == <<"t", "r", "u", "e">>
T_false == <<"f", "a", "l", "s", "e">>
T_null == <<"n", "u", "l", "l">>
T_True == <<"T", "r", "u", "e">>
T_False == <<"F", "a", "l", "s", "e">>
T_None == <<"N", "o", "n", "e">>
T_utf8 == <<"u", "t", "f", "-", "8">>

\* class FileType(PyEnum): the member values
FileType == {T_text, T_binary, T_json, T_yaml, T_xml}

\* class Permission(PyEnum): the member values
Permission == {T_444, T_644, T_755, T_777}

\* the member name of a Permission value
PermissionName(v) ==
    CASE v = T_444 -> <<"R", "E", "A", "D", "_", "O", "N", "L", "Y">>
      [] v = T_644 -> <<"W", "R", "I", "T", "A", "B", "L", "E">>
      [] v = T_755 -> <<"E", "X", "E", "C", "U", "T", "A", "B", "L", "E">>
      [] v = T_777 -> <<"F", "U", "L", "L">>

UpperChar(c) ==
    IF \E n \in 1..26 : LowerAlpha[n] = c
    THEN UpperAlpha[CHOOSE n \in 1..26 : LowerAlpha[n] = c]
    ELSE c

\* the member name of a FileType value: TEXT, BINARY, JSON, YAML, XML
FileTypeName(v) == [n \in 1..Len(v) |-> UpperChar(v[n])]

(***************************************************************************)
(* Attribute values: a tag t and the text v that carries the value.        *)
(*   "str"        a plain string, v its characters                         *)
(*   "int"        a Python int, v its decimal text                         *)
(*   "bool"       True / False, v the text True or False                   *)
(*   "null"       None                                                     *)
(*   "FileType"   an enum member, v its value (text, binary, ...)          *)
(*   "Permission" an enum member, v its value (444, 644, 755, 777)         *)
(***************************************************************************)
Val(t, v) == [t |-> t, v |-> v]

PyStr(s) == Val("str", s)
PyTrue == Val("bool", T_True)
PyFalse == Val("bool", T_False)
PyNone == Val("null", T_None)

\* str(value)
py_str(val) ==
    CASE val.t = "FileType" ->
            <<"F", "i", "l", "e", "T", "y", "p", "e", ".">> \o FileTypeName(val.v)
      [] val.t = "Permission" ->
            <<"P", "e", "r", "m", "i", "s", "s", "i", "o", "n", ".">>
                \o PermissionName(val.v)
      [] OTHER -> val.v

\* bool(value): the truth test of `if value` / `not value`
truthy(val) ==
    CASE val.t = "str" -> val.v # <<>>
      [] val.t = "int" -> val.v # <<"0">>
      [] val.t = "bool" -> val.v = T_True
      [] val.t = "null" -> FALSE
      [] OTHER -> TRUE

\* a token of the lexer: its type and its text
Tok(type, value) == [type |-> type, value |-> value]

\* Parser.parse_attribute_value: the typed value of an attribute token.
\* A NUMBER with a dot makes int() raise ValueError, any other token type
\* is the parser's "Unsupported attribute value type".
parse_attribute_value(tok) ==
    CASE tok.type = "STRING" ->
            IF Lower(tok.value) \in FileType
            THEN Val("FileType", Lower(tok.value))
            ELSE IF tok.value \in Permission THEN Val("Permission", tok.value)
            ELSE PyStr(tok.value)
      [] tok.type = "NUMBER" ->
            IF IsDecimal(tok.value)
            THEN Val("int", IntToStr(StrToNat(tok.value)))
            ELSE Val("ValueError", tok.value)
      [] tok.type = "IDENTIFIER" ->
            IF Lower(tok.value) = T_true THEN PyTrue
            ELSE IF Lower(tok.value) = T_false THEN PyFalse
            ELSE IF Lower(tok.value) = T_null THEN PyNone
            ELSE PyStr(tok.value)
      [] OTHER -> Val("SyntaxError", tok.value)

\* the attribute loop of Parser.parse_attributes: attributes[name] = value,
\* a repeated name overwrites
RECURSIVE parse_attributes(_)
parse_attributes(pairs) ==
    IF Len(pairs) = 0 THEN <<>>
    ELSE DictSet(parse_attributes(SubSeq(pairs, 1, Len(pairs) - 1)),
                 pairs[Len(pairs)].k,
                 parse_attribute_value(pairs[Len(pairs)].tok))

(***************************************************************************)
(* Placeholder substitution and pattern matching.                          *)
(***************************************************************************)
\* the characters re gives a replacement template for \a \b \f \v
ControlChar(c) ==
    CASE c = "n" -> "\n"
      [] c = "t" -> "\t"
      [] c = "r" -> "\r"
      [] c = "a" -> "<BEL>"
      [] c = "b" -> "<BS>"
      [] c = "f" -> "<FF>"
      [] OTHER -> "<VT>"

IsAsciiLetter(c) ==
    \E n \in 1..26 : LowerAlpha[n] = c \/ UpperAlpha[n] = c

\* re's reading of a replacement text (re._parser.parse_template) for a
\* pattern without groups: a backslash before n, t, r, a, b, f, v gives the
\* control character, before a backslash one backslash; before any other
\* letter, a digit, or at the end of the text it raises re.error; before
\* anything else both characters stay.  ok tells whether no error was
\* raised, text is what gets inserted.
RECURSIVE parse_template(_)
parse_template(r) ==
    IF Len(r) = 0 THEN [ok |-> TRUE, text |-> <<>>]
    ELSE IF r[1] # "\\"
    THEN LET more == parse_template(Tail(r))
         IN  [ok |-> more.ok, text |-> <<r[1]>> \o more.text]
    ELSE IF Len(r) = 1 THEN [ok |-> FALSE, text |-> <<>>]
    ELSE LET c == r[2]
             more == parse_template(Drop(r, 2))
         IN  IF c \in {"n", "t", "r", "a", "b", "f", "v"}
             THEN [ok |-> more.ok, text |-> <<ControlChar(c)>> \o more.text]
             ELSE IF c = "\\"
             THEN [ok |-> more.ok, text |-> <<"\\">> \o more.text]
             ELSE IF IsAsciiLetter(c) \/ IsDigit(c)
             THEN [ok |-> FALSE, text |-> <<>>]
             ELSE [ok |-> more.ok, text |-> <<"\\", c>> \o more.text]

\* re.sub of a literal pattern p with the inserted text r: every
\* non-overlapping occurrence, left to right
RECURSIVE re_sub_literal(_, _, _)
re_sub_literal(p, r, s) ==
    IF Len(s) = 0 THEN <<>>
    ELSE IF StartsWith(s, p) THEN r \o re_sub_literal(p, r, Drop(s, Len(p)))
    ELSE <<s[1]>> \o re_sub_literal(p, r, Tail(s))

\* the text ${name}
Placeholder(name) == <<"$", "{">> \o name \o <<"}">>

\* _apply_template_vars: one re.sub per entry of the dict, in dict order,
\* each applied to the result of the one before; the value is the
\* replacement template of re.sub
RECURSIVE apply_template_vars(_, _)
apply_template_vars(text, vars) ==
    IF Len(vars) = 0 THEN text
    ELSE LET done == apply_template_vars(text, SubSeq(vars, 1, Len(vars) - 1))
             last == vars[Len(vars)]
         IN  re_sub_literal(Placeholder(last.k), parse_template(last.v).text, done)

\* _apply_template_vars raises re.error: re.sub reads the replacement
\* template before it looks for a match, so one value that is no template
\* makes every call raise, whatever the text
template_vars_error(vars) ==
    \E n \in 1..Len(vars) : ~parse_template(vars[n].v).ok

\* re.match(pattern, s) for patterns built of literal characters, `.`,
\* a leading `^` and `x*`: the pattern matches a prefix of s
RECURSIVE re_match_here(_, _)
re_match_here(p, s) ==
    IF Len(p) = 0 THEN TRUE
    ELSE IF Len(p) >= 2 /\ p[2] = "*"
    THEN \/ re_match_here(Drop(p, 2), s)
         \/ /\ Len(s) > 0
            /\ (p[1] = "." \/ p[1] = s[1])
            /\ re_match_here(p, Tail(s))
    ELSE /\ Len(s) > 0
         /\ (p[1] = "." \/ p[1] = s[1])
         /\ re_match_here(Tail(p), Tail(s))

re_match(p, s) ==
    IF Len(p) > 0 /\ p[1] = "^" THEN re_match_here(Tail(p), s)
    ELSE re_match_here(p, s)

(***************************************************************************)
(* Paths and the filesystem.  fs maps a path to its entry.                 *)
(***************************************************************************)
\* os.sep
Sep(os) == IF os = "nt" THEN "\\" ELSE "/"

IsSep(os, c) == c = "/" \/ (os = "nt" /\ c = "\\")

\* os.path.join(a, b), drive letters aside
path_join(os, a, b) ==
    IF Len(b) > 0 /\ IsSep(os, b[1]) THEN b
    ELSE IF Len(a) = 0 \/ IsSep(os, a[Len(a)]) THEN a \o b
    ELSE a \o <<Sep(os)>> \o b

\* index of the last separator of p, 0 when it has none
LastSep(os, p) ==
    IF \E n \in 1..Len(p) : IsSep(os, p[n])
    THEN CHOOSE n \in 1..Len(p) :
            IsSep(os, p[n]) /\ \A m \in (n + 1)..Len(p) : ~IsSep(os, p[m])
    ELSE 0

RECURSIVE rstrip_sep(_, _)
rstrip_sep(os, p) ==
    IF Len(p) > 0 /\ IsSep(os, p[Len(p)])
    THEN rstrip_sep(os, SubSeq(p, 1, Len(p) - 1))
    ELSE p

\* os.path.dirname(p)
dirname(os, p) ==
    LET head == SubSeq(p, 1, LastSep(os, p))
    IN  IF rstrip_sep(os, head) = <<>> THEN head ELSE rstrip_sep(os, head)

\* os.path.basename(p)
basename(os, p) == Drop(p, LastSep(os, p))

NewDir ==
    [kind |-> "dir", content |-> <<>>, chmod |-> FALSE, mode |-> 0,
     exec |-> FALSE, hidden |-> FALSE]

NewFile(content) ==
    [kind |-> "file", content |-> content, chmod |-> FALSE, mode |-> 0,
     exec |-> FALSE, hidden |-> FALSE]

\* the components of a path text: what lies between its separators
RECURSIVE Components(_, _)
Components(os, p) ==
    IF Len(p) = 0 THEN <<>>
    ELSE IF IsSep(os, p[1]) THEN Components(os, Tail(p))
    ELSE LET n == IF \E k \in 1..Len(p) : IsSep(os, p[k])
                  THEN CHOOSE k \in 1..Len(p) :
                          IsSep(os, p[k]) /\ \A m \in 1..(k - 1) : ~IsSep(os, p[m])
                  ELSE Len(p) + 1
         IN  <<SubSeq(p, 1, n - 1)>> \o Components(os, Drop(p, n - 1))

\* the components with `.` dropped and `..` taking back the one before it
RECURSIVE Collapse(_, _, _)
Collapse(comps, out, absolute) ==
    IF Len(comps) = 0 THEN out
    ELSE LET c == Head(comps)
         IN  IF c = <<".">> THEN Collapse(Tail(comps), out, absolute)
             ELSE IF c = <<".", ".">>
             THEN IF Len(out) > 0 /\ out[Len(out)] # <<".", ".">>
                  THEN Collapse(Tail(comps), SubSeq(out, 1, Len(out) - 1), absolute)
                  ELSE IF absolute THEN Collapse(Tail(comps), out, absolute)
                  ELSE Collapse(Tail(comps), Append(out, c), absolute)
             ELSE Collapse(Tail(comps), Append(out, c), absolute)

RECURSIVE JoinComps(_, _)
JoinComps(os, comps) ==
    IF Len(comps) = 0 THEN <<>>
    ELSE IF Len(comps) = 1 THEN comps[1]
    ELSE comps[1] \o <<Sep(os)>> \o JoinComps(os, Tail(comps))

\* the entry of the filesystem a path text denotes when the operating system
\* resolves it (symbolic links and drive letters aside): fs is keyed by
\* these resolved paths, `.` being the working directory
resolve(os, p) ==
    LET absolute == Len(p) > 0 /\ IsSep(os, p[1])
        body == JoinComps(os, Collapse(Components(os, p), <<>>, absolute))
    IN  IF absolute THEN <<Sep(os)>> \o body
        ELSE IF body = <<>> THEN <<".">>
        ELSE body

\* the directories that are there whatever fs holds: the working directory,
\* the root, and the ancestors .., ../.. of the working directory
Ambient(p) ==
    \/ p = <<".">>
    \/ p = <<"/">>
    \/ /\ Len(p) % 3 = 2
       /\ \A n \in 1..Len(p) :
            IF n % 3 = 0 THEN p[n] \in {"/", "\\"} ELSE p[n] = "."

\* os.path.exists as a slip that never finds what the run created would
\* have it
exists_ambient(fs, p) == Ambient(p)

\* os.path.exists(p), p resolved
exists(fs, p) == p \in DOMAIN fs \/ Ambient(p)

isdir(fs, p) == Ambient(p) \/ (p \in DOMAIN fs /\ fs[p].kind = "dir")

\* the entry at p, p resolved
Entry(fs, p) == IF p \in DOMAIN fs THEN fs[p] ELSE NewDir

Put(fs, p, e) == [q \in DOMAIN fs \cup {p} |-> IF q = p THEN e ELSE fs[q]]

\* os.makedirs as a slip that swallows every failure would have it
makedirs_lenient(os, fs, p) ==
    [fs |-> IF exists(fs, resolve(os, p)) THEN fs
            ELSE Put(fs, resolve(os, p), NewDir),
     err |-> ""]

\* os.makedirs(p, exist_ok=True): the missing ancestors are made first, an
\* existing directory is accepted, a file in the way raises.  The result is
\* the filesystem and whether the call raised.
RECURSIVE makedirs(_, _, _)
makedirs(os, fs, p) ==
    LET head == dirname(os, p)
        tail == basename(os, p)
        Up(rhead) ==
            IF head # <<>> /\ tail # <<>> /\ ~exists(fs, rhead)
            THEN makedirs(os, fs, head)
            ELSE [fs |-> fs, err |-> ""]
        Made(rp, rhead, up) ==
            IF up.err \notin {"", "FileExistsError"} THEN up
            ELSE IF exists(up.fs, rp)
            THEN [fs |-> up.fs,
                  err |-> IF isdir(up.fs, rp) THEN "" ELSE "FileExistsError"]
            ELSE IF head = <<>> \/ isdir(up.fs, rhead)
            THEN [fs |-> Put(up.fs, rp, NewDir), err |-> ""]
            ELSE [fs |-> up.fs, err |-> "NotADirectoryError"]
    IN  Made(resolve(os, p), resolve(os, head), Up(resolve(os, head)))

\* os.chmod(p, mode), p resolved
chmod(fs, p, mode) ==
    Put(fs, p, [Entry(fs, p) EXCEPT !.chmod = TRUE, !.mode = mode,
                                    !.exec = ((mode \div 64) % 2 = 1)])

(***************************************************************************)
(* File content resolution.                                                *)
(***************************************************************************)
\* the text of datetime.now(), whatever the clock says
NowText == <<"<now>">>

\* the `defaults` table of _get_file_content
DefaultBody(file_type, file_name) ==
    CASE file_type = Val("FileType", T_text) ->
            <<"#", " ", "F", "i", "l", "e", ":", " ">> \o file_name
                \o <<"\n", "#", " ", "C", "r", "e", "a", "t", "e", "d", ":", " ">>
                \o NowText \o <<"\n">>
      [] file_type = Val("FileType", T_json) ->
            <<"{", "\n", " ", " ", "\"", "n", "a", "m", "e", "\"", ":", " ", "\"">>
                \o file_name \o <<"\"", "\n", "}", "\n">>
      [] file_type = Val("FileType", T_yaml) ->
            <<"#", " ">> \o file_name
                \o <<"\n", "c", "r", "e", "a", "t", "e", "d", ":", " ">>
                \o NowText \o <<"\n">>
      [] file_type = Val("FileType", T_xml) ->
            <<"<", "?", "x", "m", "l", " ", "v", "e", "r", "s", "i", "o", "n",
              "=", "\"", "1", ".", "0", "\"", "?", ">", "\n", "<", "r", "o",
              "o", "t", ">", "\n", " ", " ", "<", "f", "i", "l", "e", ">">>
                \o file_name
                \o <<"<", "/", "f", "i", "l", "e", ">", "\n", "<", "/", "r",
                     "o", "o", "t", ">", "\n">>
      [] OTHER -> <<>>

\* the first key of file_contents, in dict order, that re.match accepts
FirstPattern(file_contents, file_name) ==
    CHOOSE n \in 1..Len(file_contents) :
        /\ re_match(file_contents[n].k, file_name)
        /\ \A m \in 1..(n - 1) : ~re_match(file_contents[m].k, file_name)

AnyPattern(file_contents, file_name) ==
    \E n \in 1..Len(file_contents) : re_match(file_contents[n].k, file_name)

\* the variants of _get_file_content that a slip in the order would give
get_file_content_template_first(attributes, file_name, tpls, file_contents) ==
    LET template_name == DictGet(attributes, K_template, PyNone)
    IN  IF /\ HasKey(attributes, K_template)
           /\ template_name.t = "str"
           /\ HasKey(tpls, template_name.v)
        THEN DictGet(tpls, template_name.v, <<>>)
        ELSE IF HasKey(attributes, K_content)
        THEN py_str(DictGet(attributes, K_content, PyNone))
        ELSE IF HasKey(file_contents, file_name)
        THEN DictGet(file_contents, file_name, <<>>)
        ELSE IF AnyPattern(file_contents, file_name)
        THEN file_contents[FirstPattern(file_contents, file_name)].v
        ELSE DefaultBody(DictGet(attributes, K_type, Val("FileType", T_text)),
                         file_name)

\* _get_file_content
get_file_content(attributes, file_name, tpls, file_contents) ==
    LET template_name == DictGet(attributes, K_template, PyNone)
    IN  IF HasKey(attributes, K_content)
        THEN py_str(DictGet(attributes, K_content, PyNone))
        ELSE IF /\ HasKey(attributes, K_template)
                /\ template_name.t = "str"
                /\ HasKey(tpls, template_name.v)
        THEN DictGet(tpls, template_name.v, <<>>)
        ELSE IF HasKey(file_contents, file_name)
        THEN DictGet(file_contents, file_name, <<>>)
        ELSE IF AnyPattern(file_contents, file_name)
        THEN file_contents[FirstPattern(file_contents, file_name)].v
        ELSE DefaultBody(DictGet(attributes, K_type, Val("FileType", T_text)),
                         file_name)

(***************************************************************************)
(* Folder and file creation.  env tells which platform calls succeed:      *)
(* env.chmod_ok the chmod of `permissions`, env.exec_ok the stat/chmod of  *)
(* `executable`, env.hidden_ok SetFileAttributesW.  Each operator returns  *)
(* the filesystem and the exception that left it ("" when none did).       *)
(***************************************************************************)
\* codecs Python knows, among the encoding texts of this model
KnownEncodings ==
    {T_utf8, <<"u", "t", "f", "8">>, <<"a", "s", "c", "i", "i">>}

SetHidden(fs, p) == Put(fs, p, [Entry(fs, p) EXCEPT !.hidden = TRUE])

SetExec(fs, p) == Put(fs, p, [Entry(fs, p) EXCEPT !.exec = TRUE])

\* _create_folder
create_folder(os, fs, path, attributes, env) ==
    LET hidden == DictGet(attributes, K_hidden, PyFalse)
        permissions == DictGet(attributes, K_permissions, PyStr(T_755))
        Hide(made, rp) ==
            IF truthy(hidden) /\ os = "nt" /\ env.hidden_ok
            THEN SetHidden(made.fs, rp)
            ELSE made.fs
        \* int(permissions, 8) raises TypeError unless permissions is a str
        Mode(fs1, rp) ==
            IF /\ os # "nt"
               /\ permissions.t = "str"
               /\ IsOctal(permissions.v)
               /\ env.chmod_ok
            THEN chmod(fs1, rp, OctalValue(permissions.v))
            ELSE fs1
        Folder(made, rp) ==
            IF made.err # "" THEN made
            ELSE [fs |-> Mode(Hide(made, rp), rp), err |-> ""]
    IN  Folder(makedirs(os, fs, path), resolve(os, path))

\* _apply_file_attributes, path resolved
apply_file_attributes(os, fs, path, attributes, env) ==
    LET hidden == DictGet(attributes, K_hidden, PyFalse)
        permissions == DictGet(attributes, K_permissions, PyNone)
        executable == DictGet(attributes, K_executable, PyFalse)
        fs1 == IF truthy(hidden) /\ os = "nt" /\ env.hidden_ok
               THEN SetHidden(fs, path)
               ELSE fs
        Mode(fs0) ==
            IF /\ truthy(permissions)
               /\ os # "nt"
               /\ IsOctal(py_str(permissions))
               /\ env.chmod_ok
            THEN chmod(fs0, path, OctalValue(py_str(permissions)))
            ELSE fs0
        Exec(fs2) ==
            IF truthy(executable) /\ os # "nt"
            THEN IF env.exec_ok
                 THEN [fs |-> SetExec(fs2, path), err |-> ""]
                 ELSE [fs |-> fs2, err |-> "OSError"]
            ELSE [fs |-> fs2, err |-> ""]
    IN  Exec(Mode(fs1))

\* the test of _create_file that skips an existing path, as a slip that
\* never skips would have it
skip_existing_never(fs, path, attributes) == FALSE

\* _create_file: `os.path.exists(path) and not replace_if_exists`
skip_existing(fs, path, attributes) ==
    LET replace_if_exists == DictGet(attributes, K_replaceifexists, PyTrue)
    IN  exists(fs, path) /\ ~truthy(replace_if_exists)

\* open(path, mode).write(content), path resolved: an existing file keeps
\* its mode bits
write_file(fs, path, content) ==
    IF path \in DOMAIN fs
    THEN Put(fs, path, [fs[path] EXCEPT !.content = content])
    ELSE Put(fs, path, NewFile(content))

\* _create_file.  stage tells how far the call came: "skip", "makedirs",
\* "write", "attributes", "print" (the progress line reads file_type.value)
\* or "done".
create_file(os, fs, path, content, attributes, env) ==
    LET encoding == DictGet(attributes, K_encoding, PyStr(T_utf8))
        file_type == DictGet(attributes, K_type, Val("FileType", T_text))
        binary == file_type = Val("FileType", T_binary)
        known == encoding.t = "str" /\ Lower(encoding.v) \in KnownEncodings
        R(f, e, st) == [fs |-> f, err |-> e, stage |-> st]
        Write(made, rp, applied) ==
            IF skip_existing(fs, rp, attributes) THEN R(fs, "", "skip")
            ELSE IF made.err # "" THEN R(made.fs, made.err, "makedirs")
            ELSE IF binary /\ encoding.t # "str"
            THEN R(made.fs, "TypeError", "write")
            ELSE IF binary /\ ~known THEN R(made.fs, "LookupError", "write")
            ELSE IF ~binary /\ encoding.t \notin {"str", "null"}
            THEN R(made.fs, "TypeError", "write")
            ELSE IF isdir(made.fs, rp)
            THEN R(made.fs, "IsADirectoryError", "write")
            ELSE IF ~binary /\ encoding.t = "str" /\ ~known
            \* the file is opened, and so truncated, before the codec is
            \* looked up
            THEN R(write_file(made.fs, rp, <<>>), "LookupError", "write")
            ELSE IF applied.err # ""
            THEN R(applied.fs, applied.err, "attributes")
            ELSE IF file_type.t \notin {"FileType", "Permission"}
            THEN R(applied.fs, "AttributeError", "print")
            ELSE R(applied.fs, "", "done")
        File(made, rp) ==
            Write(made, rp,
                  apply_file_attributes(os, write_file(made.fs, rp, content),
                                        rp, attributes, env))
    IN  File(makedirs(os, fs, dirname(os, path)), resolve(os, path))

(***************************************************************************)
(* For-loops and the variable environment.                                 *)
(***************************************************************************)
\* condition_func as a slip that reads `<=` as `<` would have it
condition_func_strict(condition, x, end) ==
    CASE condition = "<" -> x < end
      [] condition = "<=" -> x < end
      [] condition = ">" -> x > end
      [] condition = ">=" -> x >= end
      [] OTHER -> x # end

\* condition_func of _generate_for_loop
condition_func(condition, x, end) ==
    CASE condition = "<" -> x < end
      [] condition = "<=" -> x <= end
      [] condition = ">" -> x > end
      [] condition = ">=" -> x >= end
      [] OTHER -> x # end

\* a binding of the environment: present with a value, or absent.
\* variables.get(name) is None exactly when the name is absent.
Bound(v) == [some |-> TRUE, v |-> v]
Unbound == [some |-> FALSE, v |-> <<>>]
Binding(vars, name) ==
    IF HasKey(vars, name) THEN Bound(DictGet(vars, name, <<>>)) ELSE Unbound

\* the end of an iteration, as a slip that leaves the loop value behind
for_restore_leak(vars, var_name, old_value) == vars

\* the end of an iteration of _generate_for_loop: the old value is put back,
\* or the name is deleted when there was none
for_restore(vars, var_name, old_value) ==
    IF old_value.some THEN DictSet(vars, var_name, old_value.v)
    ELSE DictDel(vars, var_name)

\* the binding of _generate_input, as a slip that keeps an existing binding
input_bind_setdefault(vars, variable, value) ==
    IF HasKey(vars, variable) THEN vars ELSE DictSet(vars, variable, value)

\* _generate_input: self.variables[node.variable] = value
input_bind(vars, variable, value) == DictSet(vars, variable, value)

(***************************************************************************)
(* AST nodes.  Every node record has all fields; src is the attribute list *)
(* as written in the source (name and value token of each pair), from      *)
(* which Parser.parse_attributes builds attributes.                        *)
(***************************************************************************)
BlankNode ==
    [kind |-> "none", name |-> <<>>, attributes |-> <<>>, src |-> <<>>,
     children |-> <<>>, var_name |-> <<>>, start |-> 0, end |-> 0,
     step |-> 1, condition |-> "<", message |-> <<>>, variable |-> <<>>]

FolderNode(name, src, children) ==
    [BlankNode EXCEPT !.kind = "folder", !.name = name, !.src = src,
                      !.attributes = parse_attributes(src),
                      !.children = children]

FileNode(name, src) ==
    [BlankNode EXCEPT !.kind = "file", !.name = name, !.src = src,
                      !.attributes = parse_attributes(src)]

ForLoopNode(var_name, start, end, step, condition, children) ==
    [BlankNode EXCEPT !.kind = "for", !.var_name = var_name, !.start = start,
                      !.end = end, !.step = step, !.condition = condition,
                      !.children = children]

OutputNode(message) == [BlankNode EXCEPT !.kind = "output", !.message = message]

InputNode(variable) == [BlankNode EXCEPT !.kind = "input", !.variable = variable]

\* one attribute as written: name = value token
Attr(k, tok) == [k |-> k, tok |-> tok]
AttrS(k, s) == Attr(k, Tok("STRING", s))
AttrN(k, s) == Attr(k, Tok("NUMBER", s))
AttrI(k, s) == Attr(k, Tok("IDENTIFIER", s))

(***************************************************************************)
(* Configuration (core/config.py).                                         *)
(***************************************************************************)
\* dict.update
RECURSIVE DictUpdate(_, _)
DictUpdate(d, other) ==
    IF Len(other) = 0 THEN d
    ELSE DictSet(DictUpdate(d, SubSeq(other, 1, Len(other) - 1)),
                 other[Len(other)].k, other[Len(other)].v)

KV(k, v) == [k |-> k, v |-> v]

\* FSConfig.__init__: self.defaults
FSConfig_defaults ==
    <<KV(K_encoding, PyStr(T_utf8)), KV(K_replaceifexists, PyTrue),
      KV(K_type, Val("FileType", T_text)), KV(K_permissions, PyStr(T_644)),
      KV(K_hidden, PyFalse), KV(K_executable, PyFalse)>>

\* FSConfig.load_from_dict / load_from_file, then get_config
get_config(config_dict) ==
    [file_contents |-> config_dict.file_contents,
     templates |-> config_dict.templates,
     defaults |-> DictUpdate(FSConfig_defaults, config_dict.defaults)]

\* build_from_dsl without a config file: config = {}
NoConfig == [file_contents |-> <<>>, templates |-> <<>>, defaults |-> <<>>]

(***************************************************************************)
(* The inputs of the model: sources, configurations, platforms, input      *)
(* lines and the filesystem found at the start.                            *)
(***************************************************************************)
V_i == <<"i">>
V_j == <<"j">>
N_a == <<"a">>
N_ab == <<"a", "b">>
N_ac == <<"a", "c">>
N_d == <<"d">>
N_z == <<"z">>
N_fi == <<"f", "$", "{", "i", "}">>
T_hi == <<"h", "i">>
T_old == <<"o", "l", "d">>
T_t1 == <<"t", "1">>

base_path == <<"b">>

InputLines == {<<"x">>, <<"y">>}

ConfigDicts ==
    { [file_contents |->
          <<KV(<<"x", ".", "*">>, <<"P", "X">>), KV(<<"a", ".">>, <<"P", "1">>),
            KV(N_ab, <<"E">>), KV(N_a, <<"P", "2">>)>>,
       templates |-> <<KV(T_t1, <<"T", "1", " ", "$", "{", "i", "}">>)>>,
       defaults |-> <<>>],
      [file_contents |-> <<>>,
       templates |-> <<>>,
       defaults |-> <<KV(K_replaceifexists, PyFalse)>>] }

Configs == {NoConfig} \cup {get_config(d) : d \in ConfigDicts}

Platforms == {"posix", "nt"}

Envs == [chmod_ok : BOOLEAN, exec_ok : BOOLEAN, hidden_ok : BOOLEAN]

EmptyFS == [q \in {} |-> NewDir]

\* the filesystem at the start: nothing, or the base directory holding a file a
StartFS(os) ==
    { EmptyFS,
      Put(Put(EmptyFS, base_path, NewDir),
          path_join(os, base_path, N_a), NewFile(T_old)) }

Operators == {"<", "<=", ">", ">=", "!="}

LoopPrograms ==
    { <<ForLoopNode(V_i, s, e, st, c, <<FileNode(N_fi, <<>>)>>)>> :
        s \in 0..MaxBound, e \in 0..MaxBound, st \in {1, 0 - 1}, c \in Operators }

ScopePrograms ==
    { <<InputNode(V_i),
        ForLoopNode(V_i, 0, 2, 1, "<", <<InputNode(V_i)>>),
        OutputNode(<<"$", "{", "i", "}">>)>>,
      <<ForLoopNode(V_i, 0, 1, 1, "<",
            <<ForLoopNode(V_i, 0, 1, 1, "<=", <<InputNode(V_i)>>),
              FileNode(N_fi, <<>>)>>),
        OutputNode(<<"$", "{", "i", "}">>)>>,
      <<InputNode(K_date), FileNode(N_a, <<>>)>>,
      <<ForLoopNode(K_date, 0, 1, 1, "<",
            <<FileNode(<<"d", "$", "{", "d", "a", "t", "e", "}">>, <<>>)>>),
        InputNode(K_time)>>,
      <<ForLoopNode(V_i, 0, 2, 1, "<", <<InputNode(V_j)>>),
        FileNode(<<"$", "{", "j", "}">>, <<>>)>>,
      <<InputNode(V_i), InputNode(V_i),
        ForLoopNode(V_j, 2, 0, 0 - 1, ">",
            <<OutputNode(<<"$", "{", "i", "}", "$", "{", "j", "}">>)>>)>> }

ContentOpts ==
    { <<>>, <<AttrS(K_content, T_hi)>>, <<AttrS(K_content, T_text)>>,
      <<AttrS(K_content, T_644)>> }

TemplateOpts ==
    { <<>>, <<AttrS(K_template, T_t1)>>, <<AttrS(K_template, <<"z", "z">>)>> }

TypeOpts ==
    { <<>>, <<AttrS(K_type, T_json)>>,
      <<AttrS(K_type, <<"B", "I", "N", "A", "R", "Y">>)>> }

ReplaceOpts ==
    { <<>>, <<AttrI(K_replaceifexists, T_true)>>,
      <<AttrI(K_replaceifexists, T_false)>> }

\* files whose content is resolved: every mix of content, template and type
ResolvePrograms ==
    { <<FileNode(n, c \o t \o ty)>> :
        n \in {N_a, N_ab, N_ac}, c \in ContentOpts, t \in TemplateOpts,
        ty \in TypeOpts }

\* a file a that may be there already, then a file z
ReplacePrograms ==
    { <<FileNode(N_a, c \o r), FileNode(N_z, <<>>)>> :
        c \in {<<>>, <<AttrS(K_content, T_hi)>>}, r \in ReplaceOpts }

FolderAttrOpts ==
    { <<>>, <<AttrS(K_permissions, T_777)>>,
      <<AttrS(K_permissions, <<"7", "0", "0">>)>>,
      <<AttrN(K_permissions, T_755)>>, <<AttrI(K_hidden, T_true)>> }

FileAttrOpts ==
    { <<>>, <<AttrS(K_permissions, T_644)>>,
      <<AttrS(K_permissions, <<"6", "0", "0">>)>>,
      <<AttrN(K_permissions, <<"6", "0", "0">>)>>,
      <<AttrI(K_executable, T_true)>>, <<AttrI(K_hidden, T_true)>>,
      <<AttrS(K_permissions, T_755), AttrI(K_executable, T_true)>> }

\* a folder d holding a file a, each with platform attributes, then a file z
PermPrograms ==
    { <<FolderNode(N_d, fa, <<FileNode(N_a, pa)>>), FileNode(N_z, <<>>)>> :
        fa \in FolderAttrOpts, pa \in FileAttrOpts }

\* names that clash, an unknown encoding, a type that is no FileType
ClashPrograms ==
    { <<FileNode(N_a, <<>>), FolderNode(N_a, <<>>, <<FileNode(N_z, <<>>)>>)>>,
      <<FolderNode(N_a, <<>>, <<>>), FileNode(N_a, <<>>)>>,
      <<FolderNode(N_a, <<>>, <<>>),
        FileNode(N_a, <<AttrI(K_replaceifexists, T_false)>>)>>,
      <<FileNode(N_a, <<AttrS(K_encoding, <<"n", "o", "p", "e">>)>>)>>,
      <<FileNode(N_a, <<AttrS(K_content, T_hi)>>),
        FileNode(N_a, <<AttrS(K_encoding, <<"n", "o", "p", "e">>)>>),
        FileNode(N_z, <<>>)>>,
      <<FileNode(N_a, <<AttrS(K_type, <<"c", "u", "s", "t", "o", "m">>)>>)>> }

N_up_x == <<".", ".", "/", "x">>
N_up == <<".", ".">>
N_abs_t == <<"/", "t">>
N_j == <<"$", "{", "j", "}">>

\* names that are not plain: ../x, an absolute /t, .., and a name that is a
\* placeholder filled by an Input line
EscapePrograms ==
    { <<FileNode(N_up_x, <<>>)>>,
      <<FolderNode(N_abs_t, <<>>, <<FileNode(N_a, <<>>)>>)>>,
      <<FolderNode(N_up, <<>>, <<FileNode(N_a, <<>>)>>)>>,
      <<InputNode(V_j), FileNode(N_j, <<>>)>> }

T_bs_d == <<"C", ":", "\\", "d">>
T_bs_n == <<"a", "\\", "n">>

\* an Input line printed back, then a text without placeholder, then a file
TemplatePrograms ==
    { <<InputNode(V_j), OutputNode(N_j), OutputNode(T_hi), FileNode(N_a, <<>>)>>,
      <<InputNode(V_j), FileNode(N_a, <<>>)>> }

\* the lines of a run that types backslashes: C:\d and a\n
BackslashLines == {<<"x">>, T_bs_d, T_bs_n}

\* the lines of a run that types a path
PathLines == {<<"x">>, N_up_x}

V_n == <<"n">>
N_fn == <<"f", "_", "$", "{", "n", "}", ".", "t", "x", "t">>

\* for [n=1; n<=3; n++] { file "f_${n}.txt" }
ExamplePrograms ==
    { <<ForLoopNode(V_n, 1, 3, 1, "<=", <<FileNode(N_fn, <<>>)>>)>> }

N_dot_a == <<".", "/", "a">>
T_v_i == <<"v", "$", "{", "i", "}">>

\* files that are not to be replaced: one in a loop, two of one name, two
\* whose names differ and denote one path, and one followed by a file of
\* the same name that may be replaced
OncePrograms ==
    { <<ForLoopNode(V_i, 0, 2, 1, "<",
            <<FileNode(N_a, <<AttrS(K_content, T_v_i),
                              AttrI(K_replaceifexists, T_false)>>)>>)>>,
      <<FileNode(N_a, <<AttrS(K_content, T_hi),
                        AttrI(K_replaceifexists, T_false)>>),
        FileNode(N_a, <<AttrS(K_content, T_old),
                        AttrI(K_replaceifexists, T_false)>>)>>,
      <<FileNode(N_a, <<AttrS(K_content, T_hi),
                        AttrI(K_replaceifexists, T_false)>>),
        FileNode(N_dot_a, <<AttrI(K_replaceifexists, T_false)>>)>>,
      <<FileNode(N_a, <<AttrS(K_content, T_hi),
                        AttrI(K_replaceifexists, T_false)>>),
        FileNode(N_a, <<AttrS(K_content, T_old)>>)>> }

V_x == <<"x">>
T_var_x == <<"$", "{", "x", "}">>
T_var_i == <<"$", "{", "i", "}">>

\* stdin >> x  for [i=1; i<2; i++] { stdout << "${x}" }, and the same with
\* the input read inside the loop, so that i is bound before x
NestedPrograms ==
    { <<InputNode(V_x),
        ForLoopNode(V_i, 1, 2, 1, "<", <<OutputNode(T_var_x)>>)>>,
      <<ForLoopNode(V_i, 1, 2, 1, "<",
            <<InputNode(V_x), OutputNode(T_var_x)>>)>> }

\* the lines of a run that types a placeholder
NestedLines == {<<"x">>, T_var_i}

\* a run's inputs: the parsed source, the configuration, the platform and
\* the filesystem found
Scenario(nodes, cfg, os, f) ==
    [nodes |-> nodes, config |-> cfg, os |-> os, fs |-> f, lines |-> InputLines]

Scenarios ==
    {Scenario(p, NoConfig, "posix", EmptyFS) :
        p \in LoopPrograms \cup ScopePrograms \cup ExamplePrograms}
    \cup {Scenario(p, c, "posix", EmptyFS) : p \in ResolvePrograms, c \in Configs}
    \cup UNION {{Scenario(p, c, os, f) : p \in ReplacePrograms, c \in Configs,
                                        f \in StartFS(os)} : os \in Platforms}
    \cup {Scenario(p, NoConfig, os, EmptyFS) : p \in PermPrograms, os \in Platforms}
    \cup {Scenario(p, NoConfig, os, EmptyFS) : p \in ClashPrograms, os \in Platforms}
    \cup {[Scenario(p, NoConfig, "posix", EmptyFS) EXCEPT !.lines = PathLines] :
            p \in EscapePrograms}
    \cup {[Scenario(p, NoConfig, "posix", EmptyFS) EXCEPT
                !.lines = BackslashLines] : p \in TemplatePrograms}
    \cup {[Scenario(p, NoConfig, "posix", EmptyFS) EXCEPT
                !.lines = NestedLines] : p \in NestedPrograms}
    \cup {Scenario(p, NoConfig, "posix", f) :
            p \in OncePrograms, f \in StartFS("posix")}

(***************************************************************************)
(* The generator as a state machine (InteractiveFSGenerator).              *)
(***************************************************************************)
VARIABLES
    pc,             \* "constructed", "run", "done", or "error" once an exception left generate
    err,            \* the exception that left generate, "" when none
    os_name,        \* os.name
    config,         \* self.config
    file_contents,  \* self.file_contents
    templates,      \* self.templates
    variables,      \* self.variables
    fs,             \* the filesystem
    stack,          \* the call stack of _generate_node: one frame per node list being walked
    stdout,         \* what Output nodes printed
    last,           \* history: the node-level step taken last
    lastline,       \* history: per variable, the line its latest Input read
    persist,        \* history: the same, for Inputs outside every ForLoop over the variable
    trace,          \* history: the directories and files generated, in order
    lines,          \* the lines standard input can deliver to an Input node
    lexer,          \* the Lexer object: source text, position, tokens
    parser,         \* the Parser object and the outcome of parse
    engine,         \* the TemplateEngine call: template, context, result
    run1            \* history: the run of the other generator on the same program

vars ==
    <<pc, err, os_name, config, file_contents, templates, variables, fs,
      stack, stdout, last, lastline, persist, trace, lines, lexer, parser,
      engine, run1>>

\* the texts datetime.now().strftime gave when the generator was constructed
SeedDate == <<"<date>">>
SeedTime == <<"<time>">>

EnvAllOk == [chmod_ok |-> TRUE, exec_ok |-> TRUE, hidden_ok |-> TRUE]

LastNone ==
    [op |-> "none", attributes |-> <<>>, src |-> <<>>, path |-> <<>>,
     file_name |-> <<>>, existed |-> FALSE, before |-> NewDir,
     resolved |-> <<>>, content |-> <<>>, stage |-> "", env |-> EnvAllOk,
     var |-> <<>>, pre |-> Unbound]

\* a frame walks `children` under `path`; a "for" frame also holds the loop
\* node, the values, the index vi of the current value, the saved old_value,
\* the counter i of the value computation and its phase ("compute" while the
\* values are computed, "next" between iterations, "body" inside one);
\* pre is history: the binding of the loop variable when the loop began
Frame(kind, children, path) ==
    [kind |-> kind, children |-> children, idx |-> 1, path |-> path,
     node |-> BlankNode, values |-> <<>>, vi |-> 1, old_value |-> Unbound,
     i |-> 0, phase |-> "body", pre |-> Unbound]

\* the lexer, the parser and the template engine while a run does not use
\* them
LexerIdle == [status |-> "idle"]
ParserIdle == [status |-> "idle"]
EngineIdle == [status |-> "idle"]

\* the run of the other generator, while there is none
RunNone == [status |-> "none"]

\* the history of what the platform let a run do, one entry per folder or
\* file generated: kept while two runs are to be compared
Witnessed(r, env) ==
    IF r.status = "first" THEN [r EXCEPT !.world = Append(@, env)]
    ELSE IF r.status = "second" THEN [r EXCEPT !.again = Append(@, env)]
    ELSE r

\* what the platform may let the next folder or file do: anything, but in the
\* second of two runs to be compared, what it let the first run do
Platform(r) ==
    IF r.status = "second" /\ Len(r.again) < Len(r.world)
    THEN {r.world[Len(r.again) + 1]}
    ELSE Envs

\* what self.variables holds for the variables of the ForLoops being
\* executed, outermost first
LoopBindings(stk, env) ==
    [n \in 1..Len(stk) |->
        IF stk[n].kind = "for"
        THEN KV(stk[n].node.var_name, Binding(env, stk[n].node.var_name))
        ELSE KV(<<>>, Unbound)]

\* one entry of the history of generated paths: the node kind, its path and
\* the exception its creation raised ("" when none); for a file also its
\* attributes, the content it resolved, whether the path was there, and how
\* far _create_file came
Visit(op, path, e) ==
    [op |-> op, path |-> path, err |-> e, attributes |-> <<>>,
     content |-> <<>>, existed |-> FALSE, stage |-> "",
     bound |-> LoopBindings(stack, variables)]

\* InteractiveFSGenerator.__init__
Init ==
    /\ pc = "constructed"
    /\ err = ""
    /\ \E sc \in Scenarios :
        /\ os_name = sc.os
        /\ config = sc.config
        /\ fs = sc.fs
        /\ stack = <<Frame("top", sc.nodes, base_path)>>
        /\ lines = sc.lines
    /\ file_contents = config.file_contents
    /\ templates = config.templates
    /\ variables = <<KV(K_date, SeedDate), KV(K_time, SeedTime)>>
    /\ stdout = <<>>
    /\ last = LastNone
    /\ lastline = <<>>
    /\ persist = <<>>
    /\ trace = <<>>
    /\ lexer = LexerIdle
    /\ parser = ParserIdle
    /\ engine = EngineIdle
    /\ run1 = RunNone

Top == stack[Len(stack)]

\* the walk as a slip that takes the children last to first would have it
Cur_backwards == Top.children[Len(Top.children) - Top.idx + 1]

\* the node the walk is at
Cur == Top.children[Top.idx]

AtNode(kind) ==
    /\ pc = "run"
    /\ Top.phase = "body"
    /\ Top.idx <= Len(Top.children)
    /\ Cur.kind = kind

Advance(stk) == [stk EXCEPT ![Len(stk)].idx = @ + 1]

Pop(stk) == SubSeq(stk, 1, Len(stk) - 1)

\* a ForLoop over name is executing
LoopActive(stk, name) ==
    \E n \in 1..Len(stk) : stk[n].kind = "for" /\ stk[n].node.var_name = name

\* generate: os.makedirs(self.base_path, exist_ok=True)
Generate ==
    /\ pc = "constructed"
    /\ LET made == makedirs(os_name, fs, base_path)
       IN  /\ fs' = made.fs
           /\ err' = made.err
           /\ pc' = IF made.err = "" THEN "run" ELSE "error"
    /\ last' = [LastNone EXCEPT !.op = "generate"]
    /\ trace' = Append(trace, Visit("generate", base_path,
                                   makedirs(os_name, fs, base_path).err))
    /\ UNCHANGED <<lines, lexer, parser, engine, run1, os_name, config, file_contents, templates, variables,
                   stack, stdout, lastline, persist>>

\* _generate_output
GenerateOutput ==
    /\ AtNode("output")
    /\ IF template_vars_error(variables)
       THEN /\ pc' = "error"
            /\ err' = "re.error"
            /\ UNCHANGED <<stdout, stack>>
       ELSE /\ stdout' = Append(stdout,
                                apply_template_vars(Cur.message, variables))
            /\ stack' = Advance(stack)
            /\ UNCHANGED <<pc, err>>
    /\ last' = [LastNone EXCEPT !.op = "output", !.resolved = Cur.message]
    /\ UNCHANGED <<lines, lexer, parser, engine, run1, trace, os_name, config,
                   file_contents, templates, variables, fs, lastline, persist>>

\* _generate_input, input() returning a line
GenerateInput ==
    /\ AtNode("input")
    /\ \E value \in lines :
        /\ variables' = input_bind(variables, Cur.variable, value)
        /\ lastline' = DictSet(lastline, Cur.variable, value)
        /\ persist' = IF LoopActive(stack, Cur.variable) THEN persist
                      ELSE DictSet(persist, Cur.variable, value)
    /\ stack' = Advance(stack)
    /\ last' = [LastNone EXCEPT !.op = "input", !.var = Cur.variable]
    /\ UNCHANGED <<lines, lexer, parser, engine, run1, trace, pc, err, os_name, config, file_contents, templates, fs,
                   stdout>>

\* _generate_input, input() raising EOFError at the end of standard input
GenerateInputEOF ==
    /\ AtNode("input")
    /\ pc' = "error"
    /\ err' = "EOFError"
    /\ last' = [LastNone EXCEPT !.op = "input_eof", !.var = Cur.variable]
    /\ UNCHANGED <<lines, lexer, parser, engine, run1, trace, os_name, config, file_contents, templates, variables, fs,
                   stack, stdout, lastline, persist>>

\* _generate_folder up to its loop over the children, with _create_folder
GenerateFolder ==
    /\ AtNode("folder")
    /\ ~template_vars_error(variables)
    /\ \E env \in Platform(run1) :
        LET Created(folder_name, path, rp, made) ==
                /\ fs' = made.fs
                /\ run1' = Witnessed(run1, env)
                /\ err' = made.err
                /\ pc' = IF made.err = "" THEN "run" ELSE "error"
                /\ stack' = IF made.err = ""
                            THEN Append(Advance(stack),
                                        Frame("folder", Cur.children, path))
                            ELSE stack
                /\ last' = [LastNone EXCEPT
                                !.op = "folder", !.attributes = Cur.attributes,
                                !.src = Cur.src, !.path = rp,
                                !.file_name = folder_name,
                                !.existed = exists(fs, rp),
                                !.stage = IF made.err = "" THEN "done"
                                          ELSE "makedirs",
                                !.env = env]
                /\ trace' = Append(trace, Visit("folder", path, made.err))
            At(folder_name, path) ==
                Created(folder_name, path, resolve(os_name, path),
                        create_folder(os_name, fs, path, Cur.attributes, env))
            Named(folder_name) ==
                At(folder_name, path_join(os_name, Top.path, folder_name))
        IN  Named(apply_template_vars(Cur.name, variables))
    /\ UNCHANGED <<lines, lexer, parser, engine, os_name, config, file_contents, templates, variables,
                   stdout, lastline, persist>>

\* _generate_folder: its loop over the children is over
FolderReturn ==
    /\ pc = "run"
    /\ Top.kind = "folder"
    /\ Top.idx > Len(Top.children)
    /\ stack' = Pop(stack)
    /\ last' = [LastNone EXCEPT !.op = "folder_return"]
    /\ UNCHANGED <<lines, lexer, parser, engine, run1, trace, pc, err, os_name, config, file_contents, templates,
                   variables, fs, stdout, lastline, persist>>

\* _generate_file, with _get_file_content, _create_file and
\* _apply_file_attributes
GenerateFile ==
    /\ AtNode("file")
    /\ ~template_vars_error(variables)
    /\ \E env \in Platform(run1) :
        LET Created(file_name, path, rp, resolved, content, made) ==
                /\ fs' = made.fs
                /\ run1' = Witnessed(run1, env)
                /\ err' = made.err
                /\ pc' = IF made.err = "" THEN "run" ELSE "error"
                /\ stack' = IF made.err = "" THEN Advance(stack) ELSE stack
                /\ last' = [LastNone EXCEPT
                                !.op = "file", !.attributes = Cur.attributes,
                                !.src = Cur.src, !.path = rp,
                                !.file_name = file_name,
                                !.existed = exists(fs, rp),
                                !.before = Entry(fs, rp),
                                !.resolved = resolved, !.content = content,
                                !.stage = made.stage, !.env = env]
                /\ trace' = Append(trace,
                                   [Visit("file", path, made.err) EXCEPT
                                        !.attributes = Cur.attributes,
                                        !.content = content,
                                        !.existed = exists(fs, rp),
                                        !.stage = made.stage])
            With(file_name, path, resolved, content) ==
                Created(file_name, path, resolve(os_name, path), resolved,
                        content,
                        create_file(os_name, fs, path, content,
                                    Cur.attributes, env))
            Resolved(file_name, path, resolved) ==
                With(file_name, path, resolved,
                     apply_template_vars(resolved, variables))
            Named(file_name) ==
                Resolved(file_name,
                         path_join(os_name, Top.path, file_name),
                         get_file_content(Cur.attributes, file_name,
                                          templates, file_contents))
        IN  Named(apply_template_vars(Cur.name, variables))
    /\ UNCHANGED <<lines, lexer, parser, engine, os_name, config, file_contents, templates, variables,
                   stdout, lastline, persist>>

\* _generate_folder or _generate_file whose first _apply_template_vars
\* raises re.error: nothing is created
GenerateNameError ==
    /\ pc = "run"
    /\ Top.phase = "body"
    /\ Top.idx <= Len(Top.children)
    /\ Cur.kind \in {"folder", "file"}
    /\ template_vars_error(variables)
    /\ pc' = "error"
    /\ err' = "re.error"
    /\ last' = [LastNone EXCEPT !.op = "name_error", !.stage = "name",
                                !.attributes = Cur.attributes, !.src = Cur.src]
    /\ UNCHANGED <<lines, lexer, parser, engine, run1, trace, os_name, config,
                   file_contents, templates, variables, fs, stack, stdout,
                   lastline, persist>>

\* _generate_for_loop is entered: values = [], i = node.start
ForLoopEnter ==
    /\ AtNode("for")
    /\ stack' = Append(Advance(stack),
                       [Frame("for", Cur.children, Top.path) EXCEPT
                            !.node = Cur, !.i = Cur.start, !.phase = "compute",
                            !.pre = Binding(variables, Cur.var_name)])
    /\ last' = [LastNone EXCEPT !.op = "for_enter", !.var = Cur.var_name]
    /\ UNCHANGED <<lines, lexer, parser, engine, run1, trace, pc, err, os_name, config, file_contents, templates,
                   variables, fs, stdout, lastline, persist>>

\* one round of `while condition_func(i): values.append(i); i += node.step`
ForLoopCompute ==
    /\ pc = "run"
    /\ Top.kind = "for"
    /\ Top.phase = "compute"
    /\ condition_func(Top.node.condition, Top.i, Top.node.end)
    /\ Len(Top.values) < MaxValues
    /\ stack' = [stack EXCEPT ![Len(stack)].values = Append(@, Top.i),
                              ![Len(stack)].i = @ + Top.node.step]
    /\ last' = [LastNone EXCEPT !.op = "for_compute", !.var = Top.node.var_name]
    /\ UNCHANGED <<lines, lexer, parser, engine, run1, trace, pc, err, os_name, config, file_contents, templates,
                   variables, fs, stdout, lastline, persist>>

\* the while loop ends: condition_func(i) is false
ForLoopComputed ==
    /\ pc = "run"
    /\ Top.kind = "for"
    /\ Top.phase = "compute"
    /\ ~condition_func(Top.node.condition, Top.i, Top.node.end)
    /\ stack' = [stack EXCEPT ![Len(stack)].phase = "next"]
    /\ last' = [LastNone EXCEPT !.op = "for_computed", !.var = Top.node.var_name]
    /\ UNCHANGED <<lines, lexer, parser, engine, run1, trace, pc, err, os_name, config, file_contents, templates,
                   variables, fs, stdout, lastline, persist>>

\* `for value in values`: old_value is saved and the variable bound to
\* str(value)
ForIterBegin ==
    /\ pc = "run"
    /\ Top.kind = "for"
    /\ Top.phase = "next"
    /\ Top.vi <= Len(Top.values)
    /\ variables' = DictSet(variables, Top.node.var_name,
                            IntToStr(Top.values[Top.vi]))
    /\ stack' = [stack EXCEPT
                    ![Len(stack)].old_value = Binding(variables, Top.node.var_name),
                    ![Len(stack)].phase = "body",
                    ![Len(stack)].idx = 1]
    /\ last' = [LastNone EXCEPT !.op = "for_begin", !.var = Top.node.var_name]
    /\ UNCHANGED <<lines, lexer, parser, engine, run1, trace, pc, err, os_name, config, file_contents, templates, fs,
                   stdout, lastline, persist>>

\* the children of one iteration are done: the binding is restored
ForIterEnd ==
    /\ pc = "run"
    /\ Top.kind = "for"
    /\ Top.phase = "body"
    /\ Top.idx > Len(Top.children)
    /\ IF Top.old_value.some \/ HasKey(variables, Top.node.var_name)
       THEN /\ variables' = for_restore(variables, Top.node.var_name,
                                        Top.old_value)
            /\ stack' = [stack EXCEPT ![Len(stack)].phase = "next",
                                      ![Len(stack)].vi = @ + 1]
            /\ UNCHANGED <<pc, err>>
       ELSE \* del of a name that is not there
            /\ pc' = "error"
            /\ err' = "KeyError"
            /\ UNCHANGED <<variables, stack>>
    /\ last' = [LastNone EXCEPT !.op = "for_end", !.var = Top.node.var_name]
    /\ UNCHANGED <<lines, lexer, parser, engine, run1, trace, os_name, config, file_contents, templates, fs, stdout,
                   lastline, persist>>

\* `for value in values` is exhausted: _generate_for_loop returns
ForLoopReturn ==
    /\ pc = "run"
    /\ Top.kind = "for"
    /\ Top.phase = "next"
    /\ Top.vi > Len(Top.values)
    /\ stack' = Pop(stack)
    /\ last' = [LastNone EXCEPT !.op = "for_return",
                                !.var = Top.node.var_name, !.pre = Top.pre]
    /\ UNCHANGED <<lines, lexer, parser, engine, run1, trace, pc, err, os_name, config, file_contents, templates,
                   variables, fs, stdout, lastline, persist>>

\* generate: its loop over the top-level nodes is over
Finish ==
    /\ pc = "run"
    /\ Top.kind = "top"
    /\ Top.idx > Len(Top.children)
    /\ pc' = "done"
    /\ last' = [LastNone EXCEPT !.op = "finish"]
    /\ UNCHANGED <<lines, lexer, parser, engine, run1, trace, err, os_name, config, file_contents, templates, variables,
                   fs, stack, stdout, lastline, persist>>

Next ==
    \/ Generate
    \/ GenerateOutput
    \/ GenerateInput
    \/ GenerateInputEOF
    \/ GenerateFolder
    \/ FolderReturn
    \/ GenerateFile
    \/ GenerateNameError
    \/ ForLoopEnter
    \/ ForLoopCompute
    \/ ForLoopComputed
    \/ ForIterBegin
    \/ ForIterEnd
    \/ ForLoopReturn
    \/ Finish

Spec == Init /\ [][Next]_vars

(***************************************************************************)
(* The lexer (core/lexer.py; core/parser/lexer.py is the same lexer        *)
(* without stdout, stdin, << and >>).  pos, line_start and the token       *)
(* columns count as the code does: pos from 0, the character at pos being  *)
(* text[pos + 1].                                                          *)
(***************************************************************************)
\* str.isspace, str.isalpha, str.isalnum on the characters of this model
IsSpace(c) == c \in {" ", "\n", "\t", "\r"}

IsAlpha(c) == IsAsciiLetter(c)

IsAlnum(c) == IsAlpha(c) \/ IsDigit(c)

\* Token(type, value, line, column)
Token(type, value, line, column) ==
    [type |-> type, value |-> value, line |-> line, column |-> column]

\* self.keywords.get(value.lower(), TokenType.IDENTIFIER)
KeywordType(variant, value) ==
    LET w == Lower(value)
    IN  CASE w = <<"f", "o", "l", "d", "e", "r">> -> "FOLDER"
          [] w = <<"f", "i", "l", "e">> -> "FILE"
          [] w = <<"f", "o", "r">> -> "FOR"
          [] w = <<"i", "f">> -> "IF"
          [] w = <<"e", "l", "s", "e">> -> "ELSE"
          [] w = <<"s", "t", "d", "o", "u", "t">> /\ variant = "core" -> "STDOUT"
          [] w = <<"s", "t", "d", "i", "n">> /\ variant = "core" -> "STDIN"
          [] OTHER -> "IDENTIFIER"

\* self.operators
OperatorType(op) ==
    CASE op = <<"=">> -> "ASSIGN"
      [] op = <<"=", "=">> -> "EQ"
      [] op = <<"!", "=">> -> "NE"
      [] op = <<"<">> -> "LT"
      [] op = <<">">> -> "GT"
      [] op = <<"<", "=">> -> "LE"
      [] op = <<">", "=">> -> "GE"
      [] op = <<"+">> -> "PLUS"
      [] op = <<"-">> -> "MINUS"
      [] op = <<"*">> -> "MUL"
      [] op = <<"/">> -> "DIV"
      [] op = <<"%">> -> "MOD"
      [] op = <<"+", "+">> -> "INCR"
      [] op = <<"-", "-">> -> "DECR"
      [] op = <<"<", "<">> -> "LSHIFT"
      [] op = <<">", ">">> -> "RSHIFT"
      [] op = <<"(">> -> "LPAREN"
      [] op = <<")">> -> "RPAREN"
      [] op = <<"{">> -> "LBRACE"
      [] op = <<"}">> -> "RBRACE"
      [] op = <<"[">> -> "LBRACKET"
      [] op = <<"]">> -> "RBRACKET"
      [] op = <<",">> -> "COMMA"
      [] op = <<":">> -> "COLON"
      [] OTHER -> "SEMICOLON"

IsOperator(variant, op) ==
    \/ op \in { <<"=">>, <<"=", "=">>, <<"!", "=">>, <<"<">>, <<">">>,
                <<"<", "=">>, <<">", "=">>, <<"+">>, <<"-">>, <<"*">>,
                <<"/">>, <<"%">>, <<"+", "+">>, <<"-", "-">>, <<"(">>,
                <<")">>, <<"{">>, <<"}">>, <<"[">>, <<"]">>, <<",">>,
                <<":">>, <<";">> }
    \/ variant = "core" /\ op \in { <<"<", "<">>, <<">", ">">> }

\* _skip_whitespace: the position, line and line_start it leaves
RECURSIVE skip_whitespace(_, _, _, _)
skip_whitespace(text, pos, line, line_start) ==
    IF pos < Len(text) /\ IsSpace(text[pos + 1])
    THEN IF text[pos + 1] = "\n"
         THEN skip_whitespace(text, pos + 1, line + 1, pos + 1)
         ELSE skip_whitespace(text, pos + 1, line, line_start)
    ELSE [pos |-> pos, line |-> line, line_start |-> line_start]

\* _read_comment: the position it leaves
RECURSIVE read_comment(_, _)
read_comment(text, pos) ==
    IF pos < Len(text) /\ text[pos + 1] # "\n"
    THEN read_comment(text, pos + 1)
    ELSE pos

\* the loop of _read_string from pos on: the position of the closing quote,
\* or -1 when the text ends first
RECURSIVE string_end(_, _)
string_end(text, pos) ==
    IF pos >= Len(text) THEN 0 - 1
    ELSE IF text[pos + 1] = "\"" THEN pos
    ELSE IF text[pos + 1] = "\\" /\ pos + 1 < Len(text)
    THEN string_end(text, pos + 2)
    ELSE string_end(text, pos + 1)

\* the loop of _read_number: the position it leaves
RECURSIVE read_number(_, _)
read_number(text, pos) ==
    IF pos < Len(text) /\ (IsDigit(text[pos + 1]) \/ text[pos + 1] = ".")
    THEN read_number(text, pos + 1)
    ELSE pos

\* the loop of _read_template_var as a slip that does not count nested
\* braces would have it
RECURSIVE brace_scan_flat(_, _, _)
brace_scan_flat(text, pos, depth) ==
    IF pos < Len(text) /\ depth > 0
    THEN IF text[pos + 1] = "}"
         THEN brace_scan_flat(text, pos + 1, depth - 1)
         ELSE brace_scan_flat(text, pos + 1, depth)
    ELSE [pos |-> pos, depth |-> depth]

\* the loop of _read_template_var: the position and the depth it leaves
RECURSIVE brace_scan(_, _, _)
brace_scan(text, pos, depth) ==
    IF pos < Len(text) /\ depth > 0
    THEN IF text[pos + 1] = "{"
         THEN brace_scan(text, pos + 1, depth + 1)
         ELSE IF text[pos + 1] = "}"
         THEN brace_scan(text, pos + 1, depth - 1)
         ELSE brace_scan(text, pos + 1, depth)
    ELSE [pos |-> pos, depth |-> depth]

\* str.strip()
RECURSIVE strip(_)
strip(s) ==
    IF Len(s) > 0 /\ IsSpace(s[1]) THEN strip(Tail(s))
    ELSE IF Len(s) > 0 /\ IsSpace(s[Len(s)]) THEN strip(SubSeq(s, 1, Len(s) - 1))
    ELSE s

\* the loop of _read_identifier: the position it leaves
RECURSIVE read_identifier(_, _)
read_identifier(text, pos) ==
    IF pos < Len(text) /\ (IsAlnum(text[pos + 1]) \/ text[pos + 1] = "_")
    THEN read_identifier(text, pos + 1)
    ELSE pos

\* _read_operator: the length of the operator at pos, two characters before
\* one, 0 when there is none
operator_length(variant, text, pos) ==
    IF pos + 2 <= Len(text) /\ IsOperator(variant, SubSeq(text, pos + 1, pos + 2))
    THEN 2
    ELSE IF pos + 1 <= Len(text) /\ IsOperator(variant, SubSeq(text, pos + 1, pos + 1))
    THEN 1
    ELSE 0

\* Lexer.__init__; start is history: where the construct read last began
NewLexer(variant, text) ==
    [status |-> "run", variant |-> variant, text |-> text, pos |-> 0,
     line |-> 1, line_start |-> 0, tokens |-> <<>>, err |-> "", start |-> 0]

\* where tokenize stands after _skip_whitespace
AfterSpace ==
    skip_whitespace(lexer.text, lexer.pos, lexer.line, lexer.line_start)

\* the character tokenize looks at
LexChar == lexer.text[AfterSpace.pos + 1]

\* one round of the loop of tokenize has a character to look at
LexAt ==
    /\ lexer.status = "run"
    /\ AfterSpace.pos < Len(lexer.text)

\* the lexer after a round that began at AfterSpace and left position p
Lexed(p) ==
    [lexer EXCEPT !.pos = p, !.line = AfterSpace.line,
                  !.line_start = AfterSpace.line_start,
                  !.start = AfterSpace.pos]

LexColumn == AfterSpace.pos - AfterSpace.line_start + 1

GeneratorVars ==
    <<pc, err, os_name, config, file_contents, templates, variables, fs,
      stack, stdout, last, lastline, persist, trace, lines>>

\* tokenize: a comment
LexComment ==
    /\ LexAt
    /\ LexChar = "#"
    /\ lexer' = Lexed(read_comment(lexer.text, AfterSpace.pos))
    /\ UNCHANGED <<GeneratorVars, parser, engine, run1>>

\* tokenize: a string, closed or not
LexString ==
    /\ LexAt
    /\ LexChar = "\""
    /\ LET begin == AfterSpace.pos + 1
           close == string_end(lexer.text, begin)
       IN  lexer' =
             IF close < 0
             THEN [Lexed(Len(lexer.text)) EXCEPT !.status = "error",
                                                 !.err = "Unclosed string"]
             ELSE [Lexed(close + 1) EXCEPT
                     !.tokens = Append(@,
                         Token("STRING", SubSeq(lexer.text, begin + 1, close),
                               AfterSpace.line,
                               begin - AfterSpace.line_start + 1))]
    /\ UNCHANGED <<GeneratorVars, parser, engine, run1>>

\* tokenize: a number
LexNumber ==
    /\ LexAt
    /\ IsDigit(LexChar)
    /\ LET p == read_number(lexer.text, AfterSpace.pos)
       IN  lexer' = [Lexed(p) EXCEPT
                        !.tokens = Append(@,
                            Token("NUMBER", SubSeq(lexer.text, AfterSpace.pos + 1, p),
                                  AfterSpace.line, LexColumn))]
    /\ UNCHANGED <<GeneratorVars, parser, engine, run1>>

LexAtTemplateVar ==
    /\ LexChar = "$"
    /\ AfterSpace.pos + 1 < Len(lexer.text)
    /\ lexer.text[AfterSpace.pos + 2] = "{"

\* tokenize: ${ ... }, closed or not
LexTemplateVar ==
    /\ LexAt
    /\ LexAtTemplateVar
    /\ LET scan == brace_scan(lexer.text, AfterSpace.pos + 2, 1)
       IN  lexer' =
             IF scan.depth > 0
             THEN [Lexed(scan.pos) EXCEPT
                     !.status = "error", !.err = "Unclosed template variable"]
             ELSE [Lexed(scan.pos) EXCEPT
                     !.tokens = Append(@,
                         Token("TEMPLATE_VAR",
                               strip(SubSeq(lexer.text, AfterSpace.pos + 3,
                                            scan.pos - 1)),
                               AfterSpace.line, LexColumn))]
    /\ UNCHANGED <<GeneratorVars, parser, engine, run1>>

\* tokenize: an identifier or keyword
LexIdentifier ==
    /\ LexAt
    /\ IsAlpha(LexChar) \/ LexChar = "_"
    /\ LET p == read_identifier(lexer.text, AfterSpace.pos)
           value == SubSeq(lexer.text, AfterSpace.pos + 1, p)
       IN  lexer' = [Lexed(p) EXCEPT
                        !.tokens = Append(@,
                            Token(KeywordType(lexer.variant, value), value,
                                  AfterSpace.line, LexColumn))]
    /\ UNCHANGED <<GeneratorVars, parser, engine, run1>>

\* no earlier branch of the loop of tokenize takes the character
LexAtOther ==
    /\ LexAt
    /\ LexChar \notin {"#", "\"", "_"}
    /\ ~IsDigit(LexChar)
    /\ ~LexAtTemplateVar
    /\ ~IsAlpha(LexChar)

\* tokenize: an operator
LexOperator ==
    /\ LexAtOther
    /\ LET n == operator_length(lexer.variant, lexer.text, AfterSpace.pos)
           op == SubSeq(lexer.text, AfterSpace.pos + 1, AfterSpace.pos + n)
       IN  /\ n > 0
           /\ lexer' = [Lexed(AfterSpace.pos + n) EXCEPT
                          !.tokens = Append(@,
                              Token(OperatorType(op), op, AfterSpace.line,
                                    LexColumn))]
    /\ UNCHANGED <<GeneratorVars, parser, engine, run1>>

\* tokenize: any other character is passed over
LexSkipChar ==
    /\ LexAtOther
    /\ operator_length(lexer.variant, lexer.text, AfterSpace.pos) = 0
    /\ lexer' = Lexed(AfterSpace.pos + 1)
    /\ UNCHANGED <<GeneratorVars, parser, engine, run1>>

\* tokenize: the text is used up, the EOF token is appended
LexEnd ==
    /\ lexer.status = "run"
    /\ AfterSpace.pos >= Len(lexer.text)
    /\ lexer' = [Lexed(AfterSpace.pos) EXCEPT
                    !.status = "done",
                    !.tokens = Append(@, Token("EOF", <<>>, AfterSpace.line, 0))]
    /\ UNCHANGED <<GeneratorVars, parser, engine, run1>>

LexNext ==
    \/ LexComment
    \/ LexString
    \/ LexNumber
    \/ LexTemplateVar
    \/ LexIdentifier
    \/ LexOperator
    \/ LexSkipChar
    \/ LexEnd

(***************************************************************************)
(* Sources for the lexer.                                                  *)
(***************************************************************************)
\* longest source text drawn from LexAlphabet
MaxSourceLen == 3

LexAlphabet == {"\"", "\\", "$", "{", "}", "#", "\n", " ", "1", "a", "<", "@"}

\* every text over LexAlphabet of at most MaxSourceLen characters
ShortSources == UNION {[1..n -> LexAlphabet] : n \in 0..MaxSourceLen}

\* folder "d" (hidden=true) { file "a" (content="hi") }
Src_tree ==
    <<"f", "o", "l", "d", "e", "r", " ", "\"", "d", "\"", " ", "(", "h", "i",
      "d", "d", "e", "n", "=", "t", "r", "u", "e", ")", " ", "{", " ", "f",
      "i", "l", "e", " ", "\"", "a", "\"", " ", "(", "c", "o", "n", "t", "e",
      "n", "t", "=", "\"", "h", "i", "\"", ")", " ", "}">>

\* for [i=0; i<2; i++] { file "f${i}" } on three lines
Src_loop ==
    <<"f", "o", "r", " ", "[", "i", "=", "0", ";", " ", "i", "<", "2", ";",
      " ", "i", "+", "+", "]", " ", "{", "\n", " ", " ", "f", "i", "l", "e",
      " ", "\"", "f", "$", "{", "i", "}", "\"", "\n", "}">>

\* ${a{b} : the inner brace is closed, the placeholder is not
Src_nested_open ==
    <<"$", "{", "a", "{", "b", "}">>

\* ${ x } ${y}
Src_var ==
    <<"$", "{", " ", "x", " ", "}", " ", "$", "{", "y", "}">>

\* "a\" : the quote after the backslash does not close the string
Src_escaped_open ==
    <<"\"", "a", "\\", "\"">>

\* "a\"b" # c "d : a closed string, then a comment holding a quote
Src_comment ==
    <<"\"", "a", "\\", "\"", "b", "\"", " ", "#", " ", "c", " ", "\"", "d">>

\* stdout << "n?" and stdin >> n on two lines
Src_io ==
    <<"s", "t", "d", "o", "u", "t", " ", "<", "<", " ", "\"", "n", "?", "\"",
      "\n", "s", "t", "d", "i", "n", " ", ">", ">", " ", "n">>

\* x=1.5 <= != _y @
Src_ops ==
    <<"x", "=", "1", ".", "5", " ", "<", "=", " ", "!", "=", " ", "_", "y",
      " ", "@">>

\* a string that spans two lines, then a token on each line
Src_multiline ==
    <<"f", "i", "l", "e", " ", "\"", "a", "\n", "b", "\"", " ", "x", "\n", "y">>

ExampleSources ==
    {Src_tree, Src_loop, Src_nested_open, Src_var, Src_escaped_open,
     Src_comment, Src_io, Src_ops, Src_multiline}

\* the generator while a run does not use it
GeneratorOff ==
    /\ pc = "off"
    /\ err = ""
    /\ os_name = "posix"
    /\ config = NoConfig
    /\ file_contents = <<>>
    /\ templates = <<>>
    /\ variables = <<>>
    /\ fs = EmptyFS
    /\ stack = <<>>
    /\ stdout = <<>>
    /\ last = LastNone
    /\ lastline = <<>>
    /\ persist = <<>>
    /\ trace = <<>>
    /\ lines = {}

\* Lexer(text)
LexInit ==
    /\ GeneratorOff
    /\ \E text \in ShortSources \cup ExampleSources :
            lexer = NewLexer("core", text)
    /\ parser = ParserIdle
    /\ engine = EngineIdle
    /\ run1 = RunNone

LexSpec == LexInit /\ [][LexNext]_vars

(***************************************************************************)
(* The parser (core/parser.py).  pos counts from 0 as in the code; each    *)
(* parse_* operator gives the outcome of the method of that name begun at  *)
(* pos: whether it returned, the position it left, what it returned, and,  *)
(* when it raised, the exception and the token it stood at.                *)
(***************************************************************************)
\* Token(TokenType.EOF, ""): what eat makes the current token past the end
NoToken == Token("EOF", <<>>, 1, 1)

\* self.current_token when self.pos is pos
TokenAt(tokens, pos) == IF pos < Len(tokens) THEN tokens[pos + 1] ELSE NoToken

Parsed(pos, val) ==
    [ok |-> TRUE, pos |-> pos, val |-> val, err |-> "", at |-> NoToken]

Failed(pos, e, tok) ==
    [ok |-> FALSE, pos |-> pos, val |-> <<>>, err |-> e, at |-> tok]

\* Parser.error: the parser's own SyntaxError, with the line and column of
\* the current token
ParseError(tokens, pos) == Failed(pos, "ParseError", TokenAt(tokens, pos))

\* Parser.eat(token_type)
eat(tokens, pos, type) ==
    IF TokenAt(tokens, pos).type = type THEN Parsed(pos + 1, <<>>)
    ELSE ParseError(tokens, pos)

\* the loop of parse_attributes, with parse_attribute_value; src collects
\* the pairs read so far
RECURSIVE attribute_loop(_, _, _)
attribute_loop(tokens, pos, src) ==
    LET t == TokenAt(tokens, pos)
        v == TokenAt(tokens, pos + 2)
        value == parse_attribute_value(Tok(v.type, v.value))
        after == IF TokenAt(tokens, pos + 3).type = "COMMA" THEN pos + 4
                 ELSE pos + 3
    IN  IF t.type = "RPAREN" THEN Parsed(pos + 1, src)
        ELSE IF t.type # "IDENTIFIER" THEN ParseError(tokens, pos)
        ELSE IF ~eat(tokens, pos + 1, "ASSIGN").ok THEN ParseError(tokens, pos + 1)
        ELSE IF value.t = "SyntaxError" THEN ParseError(tokens, pos + 2)
        \* int(self.current_token.value) of a text with a dot
        ELSE IF value.t = "ValueError" THEN Failed(pos + 2, "ValueError", v)
        ELSE attribute_loop(tokens, after,
                            Append(src, Attr(t.value, Tok(v.type, v.value))))

\* parse_attributes when the current token is LPAREN, an empty dict otherwise
optional_attributes(tokens, pos) ==
    IF TokenAt(tokens, pos).type = "LPAREN"
    THEN attribute_loop(tokens, pos + 1, <<>>)
    ELSE Parsed(pos, <<>>)

\* the comparison operators parse_for_loop accepts, by the token's value
ConditionName(value) ==
    CASE value = <<"<">> -> "<"
      [] value = <<"<", "=">> -> "<="
      [] value = <<">">> -> ">"
      [] value = <<">", "=">> -> ">="
      [] value = <<"!", "=">> -> "!="
      [] OTHER -> ""

\* the header of parse_for_loop, [ var = start ; var op end ; var ++ ] {,
\* begun at pos (the token after `for`): whether the k-th token passes the
\* test the code makes of it
HeaderOk(tokens, pos, k) ==
    LET t == TokenAt(tokens, pos + k - 1)
        var_name == TokenAt(tokens, pos + 1).value
    IN  CASE k = 1 -> t.type = "LBRACKET"
          [] k = 2 -> t.type = "IDENTIFIER"
          [] k = 3 -> t.type = "ASSIGN"
          [] k \in {4, 8} -> t.type = "NUMBER" /\ IsDecimal(t.value)
          [] k \in {5, 9} -> t.type = "SEMICOLON"
          [] k \in {6, 10} -> t.type = "IDENTIFIER" /\ t.value = var_name
          [] k = 7 -> ConditionName(t.value) # ""
          [] k = 11 -> t.type \in {"INCR", "DECR"}
          [] k = 12 -> t.type = "RBRACKET"
          [] OTHER -> t.type = "LBRACE"

RECURSIVE parse_statement(_, _)
RECURSIVE statement_loop(_, _, _)

\* parse_output
parse_output(tokens, pos) ==
    IF ~eat(tokens, pos + 1, "LSHIFT").ok THEN ParseError(tokens, pos + 1)
    ELSE IF TokenAt(tokens, pos + 2).type # "STRING"
    THEN ParseError(tokens, pos + 2)
    ELSE Parsed(pos + 3, OutputNode(TokenAt(tokens, pos + 2).value))

\* parse_input
parse_input(tokens, pos) ==
    IF ~eat(tokens, pos + 1, "RSHIFT").ok THEN ParseError(tokens, pos + 1)
    ELSE IF TokenAt(tokens, pos + 2).type # "IDENTIFIER"
    THEN ParseError(tokens, pos + 2)
    ELSE Parsed(pos + 3, InputNode(TokenAt(tokens, pos + 2).value))

\* parse_folder
parse_folder(tokens, pos) ==
    LET name == TokenAt(tokens, pos + 1)
        attrs == optional_attributes(tokens, pos + 2)
        body == statement_loop(tokens, attrs.pos + 1, "RBRACE")
    IN  IF name.type \notin {"IDENTIFIER", "STRING"}
        THEN ParseError(tokens, pos + 1)
        ELSE IF ~attrs.ok THEN attrs
        ELSE IF ~eat(tokens, attrs.pos, "LBRACE").ok
        THEN ParseError(tokens, attrs.pos)
        ELSE IF ~body.ok THEN body
        ELSE Parsed(body.pos + 1, FolderNode(name.value, attrs.val, body.val))

\* parse_file
parse_file(tokens, pos) ==
    LET name == TokenAt(tokens, pos + 1)
        attrs == optional_attributes(tokens, pos + 2)
    IN  IF name.type \notin {"IDENTIFIER", "STRING"}
        THEN ParseError(tokens, pos + 1)
        ELSE IF ~attrs.ok THEN attrs
        ELSE Parsed(attrs.pos, FileNode(name.value, attrs.val))

\* parse_for_loop
parse_for_loop(tokens, pos) ==
    LET bad == {k \in 1..13 : ~HeaderOk(tokens, pos + 1, k)}
        first == CHOOSE k \in bad : \A m \in bad : k <= m
        t == TokenAt(tokens, pos + first)
        body == statement_loop(tokens, pos + 14, "RBRACE")
    IN  IF bad # {}
        THEN IF first \in {4, 8} /\ t.type = "NUMBER"
             \* int(self.current_token.value) of a text with a dot
             THEN Failed(pos + first, "ValueError", t)
             ELSE ParseError(tokens, pos + first)
        ELSE IF ~body.ok THEN body
        ELSE Parsed(body.pos + 1,
                    ForLoopNode(TokenAt(tokens, pos + 2).value,
                                StrToNat(TokenAt(tokens, pos + 4).value),
                                StrToNat(TokenAt(tokens, pos + 8).value),
                                IF TokenAt(tokens, pos + 11).type = "INCR"
                                THEN 1 ELSE 0 - 1,
                                ConditionName(TokenAt(tokens, pos + 7).value),
                                body.val))

\* parse_statement
parse_statement(tokens, pos) ==
    LET type == TokenAt(tokens, pos).type
    IN  CASE type = "FOLDER" -> parse_folder(tokens, pos)
          [] type = "FILE" -> parse_file(tokens, pos)
          [] type = "FOR" -> parse_for_loop(tokens, pos)
          [] type = "STDOUT" -> parse_output(tokens, pos)
          [] type = "STDIN" -> parse_input(tokens, pos)
          [] OTHER -> ParseError(tokens, pos)

\* `while self.current_token.type != until: node = self.parse_statement()`:
\* the loop of parse (until EOF) and of the bodies (until RBRACE)
statement_loop(tokens, pos, until) ==
    IF TokenAt(tokens, pos).type = until THEN Parsed(pos, <<>>)
    ELSE LET st == parse_statement(tokens, pos)
             more == statement_loop(tokens, st.pos, until)
         IN  IF ~st.ok THEN st
             ELSE IF ~more.ok THEN more
             ELSE Parsed(more.pos, <<st.val>> \o more.val)

\* Parser.__init__
NewParser(tokens) ==
    [status |-> "ready", tokens |-> tokens, pos |-> 0, nodes |-> <<>>,
     err |-> "", line |-> 0, column |-> 0]

\* Parser(tokens) on the tokens tokenize returned
ParserConstruct ==
    /\ lexer.status = "done"
    /\ parser.status = "idle"
    /\ parser' = NewParser(lexer.tokens)
    /\ UNCHANGED <<GeneratorVars, lexer, engine, run1>>

\* Parser.parse.  On an empty token list current_token is None and the test
\* of the loop raises AttributeError.
Parse ==
    /\ parser.status = "ready"
    /\ LET r == statement_loop(parser.tokens, 0, "EOF")
       IN  parser' =
             IF Len(parser.tokens) = 0
             THEN [parser EXCEPT !.status = "error", !.err = "AttributeError"]
             ELSE IF r.ok
             THEN [parser EXCEPT !.status = "done", !.pos = r.pos,
                                 !.nodes = r.val]
             ELSE [parser EXCEPT !.status = "error", !.pos = r.pos,
                                 !.err = r.err, !.line = r.at.line,
                                 !.column = r.at.column]
    /\ UNCHANGED <<GeneratorVars, lexer, engine, run1>>

(***************************************************************************)
(* The pipeline of build_from_dsl (core/cli.py): tokenize, parse, then     *)
(* FileSystemGenerator.generate, whose folder, file and loop methods are   *)
(* those of InteractiveFSGenerator line by line; its variables start       *)
(* empty.  The lexer of the pipeline is core/parser/lexer.py ("cli"); the  *)
(* sources are also read with core/lexer.py ("core"), which no driver      *)
(* hands to a generator.                                                   *)
(***************************************************************************)
\* a comment, then a folder d holding a file a, with attributes
Src_attrs ==
    <<"#", " ", "t", "r", "e", "e", "\n", "f", "o", "l", "d", "e", "r", " ",
      "\"", "d", "\"", " ", "(", "h", "i", "d", "d", "e", "n", "=", "t", "r",
      "u", "e", ")", " ", "{", "\n", " ", " ", "f", "i", "l", "e", " ", "\"",
      "a", "\"", " ", "(", "c", "o", "n", "t", "e", "n", "t", "=", "\"", "h",
      "i", "\"", ")", "\n", "}">>

\* a folder, then a last statement whose string is not closed
Src_open_last ==
    <<"f", "o", "l", "d", "e", "r", " ", "\"", "d", "\"", " ", "{", " ", "f",
      "i", "l", "e", " ", "\"", "a", "\"", " ", "}", "\n", "f", "i", "l", "e",
      " ", "\"", "b">>

\* a folder, then a last statement with the attribute value 1.5
Src_dot_attr ==
    <<"f", "o", "l", "d", "e", "r", " ", "\"", "d", "\"", " ", "{", " ", "f",
      "i", "l", "e", " ", "\"", "a", "\"", " ", "}", "\n", "f", "i", "l", "e",
      " ", "\"", "b", "\"", " ", "(", "s", "i", "z", "e", "=", "1", ".", "5",
      ")">>

\* a file, then a folder whose body is not closed
Src_no_brace ==
    <<"f", "i", "l", "e", " ", "\"", "a", "\"", "\n", "f", "o", "l", "d", "e",
      "r", " ", "\"", "d", "\"", " ", "{">>

\* a file, then a placeholder where a statement begins
Src_stray_var ==
    <<"f", "i", "l", "e", " ", "\"", "a", "\"", " ", "$", "{", "x", "}">>

\* two files with a character between them that no token starts with
Src_skip ==
    <<"f", "i", "l", "e", " ", "\"", "a", "\"", " ", "@", " ", "f", "i", "l",
      "e", " ", "\"", "z", "\"">>

\* a loop whose start is 1.5
Src_dot_start ==
    <<"f", "o", "r", " ", "[", "i", "=", "1", ".", "5", ";", " ", "i", "<",
      "2", ";", " ", "i", "+", "+", "]", " ", "{", " ", "}">>

\* a loop whose end is 1.2.3
Src_dot_end ==
    <<"f", "o", "r", " ", "[", "i", "=", "0", ";", " ", "i", "<", "1", ".",
      "2", ".", "3", ";", " ", "i", "+", "+", "]", " ", "{", " ", "}">>

\* a loop whose condition names another variable
Src_other_var ==
    <<"f", "o", "r", " ", "[", "i", "=", "0", ";", " ", "j", "<", "2", ";",
      " ", "i", "+", "+", "]", " ", "{", " ", "}">>

\* a folder holding a loop that counts down
Src_down ==
    <<"f", "o", "l", "d", "e", "r", " ", "d", " ", "{", " ", "f", "o", "r",
      " ", "[", "k", "=", "2", ";", " ", "k", ">", "=", "1", ";", " ", "k",
      "-", "-", "]", " ", "{", " ", "f", "i", "l", "e", " ", "\"", "f", "$",
      "{", "k", "}", "\"", " ", "}", " ", "}">>

PipeSources ==
    {Src_attrs, Src_loop, Src_open_last, Src_dot_attr, Src_no_brace,
     Src_stray_var, Src_skip, Src_dot_start, Src_dot_end, Src_other_var,
     Src_down, Src_io, Src_nested_open, <<>>}

\* token lists handed to Parser directly: the empty list
DirectStreams == {<<>>}

\* build_from_dsl is called, or Parser(tokens) is
PipeInit ==
    /\ pc = "off"
    /\ err = ""
    /\ os_name = "posix"
    /\ config = NoConfig
    /\ file_contents = <<>>
    /\ templates = <<>>
    /\ variables = <<>>
    /\ fs \in StartFS("posix")
    /\ stack = <<>>
    /\ stdout = <<>>
    /\ last = LastNone
    /\ lastline = <<>>
    /\ persist = <<>>
    /\ trace = <<>>
    /\ lines = {}
    /\ engine = EngineIdle
    /\ run1 = RunNone
    /\ \/ /\ \E variant \in {"cli", "core"}, text \in PipeSources :
                lexer = NewLexer(variant, text)
          /\ parser = ParserIdle
       \/ /\ lexer = LexerIdle
          /\ \E tokens \in DirectStreams : parser = NewParser(tokens)

\* parse has returned the AST, as a slip that also goes on after parse has
\* raised would have it
parse_returned_or_raised == parser.status \in {"done", "error"}

\* parser.parse() has returned the AST
parse_returned == parser.status = "done"

\* build_from_dsl: FileSystemGenerator(output_dir, config) on the parsed AST
BuildGenerate ==
    /\ pc = "off"
    /\ lexer.status = "done"
    /\ lexer.variant = "cli"
    /\ parse_returned
    /\ pc' = "constructed"
    /\ stack' = <<Frame("top", parser.nodes, base_path)>>
    /\ variables' = <<>>
    /\ file_contents' = config.file_contents
    /\ templates' = config.templates
    /\ UNCHANGED <<err, os_name, config, fs, stdout, last, lastline, persist,
                   trace, lines, lexer, parser, engine, run1>>

PipeNext ==
    \/ LexComment
    \/ LexString
    \/ LexNumber
    \/ LexTemplateVar
    \/ LexIdentifier
    \/ LexOperator
    \/ LexSkipChar
    \/ LexEnd
    \/ ParserConstruct
    \/ Parse
    \/ BuildGenerate
    \/ Generate
    \/ GenerateFolder
    \/ FolderReturn
    \/ GenerateFile
    \/ ForLoopEnter
    \/ ForLoopCompute
    \/ ForLoopComputed
    \/ ForIterBegin
    \/ ForIterEnd
    \/ ForLoopReturn
    \/ Finish

PipeSpec == PipeInit /\ [][PipeNext]_vars

(***************************************************************************)
(* The template engine (core/generator/templates.py).  A context is a dict *)
(* of names to ints.  The expressions evaluated are texts whose Python     *)
(* tokens are set apart by blanks: int literals, names, the keywords and,  *)
(* or, not, comparison operators, + and -.                                 *)
(***************************************************************************)
\* bound: the number of entries of a context
MaxContext == 2

\* a context entry whose value is a list of ints
KL(k, items) == [k |-> k, v |-> items, list |-> TRUE]

IsList(entry) == "list" \in DOMAIN entry

\* ", ".join of the items
RECURSIVE JoinItems(_)
JoinItems(items) ==
    IF Len(items) = 0 THEN <<>>
    ELSE IF Len(items) = 1 THEN IntToStr(items[1])
    ELSE IntToStr(items[1]) \o <<",", " ">> \o JoinItems(Tail(items))

\* str(value) of the value of a context entry: an int or a list of ints
str_value(entry) ==
    IF IsList(entry) THEN <<"[">> \o JoinItems(entry.v) \o <<"]">>
    ELSE IntToStr(entry.v)

\* the loop of render: re.sub of ${key} by str(value), in dict order
RECURSIVE render_vars(_, _)
render_vars(template, context) ==
    IF Len(context) = 0 THEN template
    ELSE LET done == render_vars(template, SubSeq(context, 1, Len(context) - 1))
             entry == context[Len(context)]
         IN  re_sub_literal(Placeholder(entry.k),
                            parse_template(str_value(entry)).text, done)

\* the loop of replace_if: condition.replace(key, str(value)), in dict
\* order; str.replace replaces every occurrence of the characters of key
RECURSIVE replace_names(_, _)
replace_names(condition, context) ==
    IF Len(context) = 0 THEN condition
    ELSE LET done == replace_names(condition,
                                   SubSeq(context, 1, Len(context) - 1))
             entry == context[Len(context)]
         IN  re_sub_literal(entry.k, str_value(entry), done)

\* the length of the run of characters before the first blank of s
WordEnd(s) ==
    CHOOSE n \in 1..Len(s) :
        /\ n = Len(s) \/ IsSpace(s[n + 1])
        /\ \A m \in 1..n : ~IsSpace(s[m])

\* the runs of characters between the blanks of s
RECURSIVE Words(_)
Words(s) ==
    IF Len(s) = 0 THEN <<>>
    ELSE IF IsSpace(s[1]) THEN Words(Tail(s))
    ELSE <<SubSeq(s, 1, WordEnd(s))>> \o Words(Drop(s, WordEnd(s)))

W_and == <<"a", "n", "d">>
W_or == <<"o", "r">>
W_not == <<"n", "o", "t">>

CompareOps ==
    {<<">">>, <<"<">>, <<"=", "=">>, <<"!", "=">>, <<">", "=">>, <<"<", "=">>}

ArithOps == {<<"+">>, <<"-">>}

\* a decimal int literal of Python: no leading zero unless all are zeros
IsIntLiteral(w) ==
    /\ IsDecimal(w)
    /\ w[1] = "0" => \A n \in 1..Len(w) : w[n] = "0"

\* an identifier that is no keyword
IsName(w) ==
    /\ Len(w) > 0
    /\ IsAlpha(w[1]) \/ w[1] = "_"
    /\ \A n \in 1..Len(w) : IsAlnum(w[n]) \/ w[n] = "_"
    /\ w \notin {W_and, W_or, W_not}

IsAtom(w) == IsIntLiteral(w) \/ IsName(w)

\* the pieces of ws between the words that are in seps
RECURSIVE SplitAt(_, _)
SplitAt(ws, seps) ==
    IF \E n \in 1..Len(ws) : ws[n] \in seps
    THEN LET n == CHOOSE n \in 1..Len(ws) :
                      /\ ws[n] \in seps
                      /\ \A m \in 1..(n - 1) : ws[m] \notin seps
         IN  <<SubSeq(ws, 1, n - 1)>> \o SplitAt(Drop(ws, n), seps)
    ELSE <<ws>>

\* ws without its leading nots
RECURSIVE StripNot(_)
StripNot(ws) ==
    IF Len(ws) > 0 /\ ws[1] = W_not THEN StripNot(Tail(ws)) ELSE ws

\* Python's comparison: operands and binary operators in turn
Alternating(ws) ==
    /\ Len(ws) % 2 = 1
    /\ \A n \in 1..Len(ws) :
           IF n % 2 = 1 THEN IsAtom(ws[n])
           ELSE ws[n] \in CompareOps \cup ArithOps

\* compile(condition, mode eval) accepts the words: or_test of and_tests of
\* not_tests of comparisons
SyntaxOk(ws) ==
    /\ Len(ws) > 0
    /\ \A p \in 1..Len(SplitAt(ws, {W_or})) :
         LET ands == SplitAt(SplitAt(ws, {W_or})[p], {W_and})
         IN  \A q \in 1..Len(ands) : Alternating(StripNot(ands[q]))

\* the outcome of an evaluation: an exception, or a value
PyRaise == [exc |-> TRUE, v |-> FALSE, n |-> 0]
PyBool(b) == [exc |-> FALSE, v |-> b, n |-> IF b THEN 1 ELSE 0]
PyInt(n) == [exc |-> FALSE, v |-> n # 0, n |-> n]

\* an operand: a literal is its number; a name raises NameError, since eval
\* is given empty globals and locals
atom(w) == IF IsIntLiteral(w) THEN PyInt(StrToNat(w)) ELSE PyRaise

\* operands joined by + and -, from the left
RECURSIVE arith(_)
arith(ws) ==
    IF Len(ws) = 1 THEN atom(ws[1])
    ELSE LET left == arith(SubSeq(ws, 1, Len(ws) - 2))
             right == atom(ws[Len(ws)])
         IN  IF left.exc \/ right.exc THEN PyRaise
             ELSE IF ws[Len(ws) - 1] = <<"+">> THEN PyInt(left.n + right.n)
             ELSE PyInt(left.n - right.n)

compare(op, x, y) ==
    CASE op = <<">">> -> x > y
      [] op = <<"<">> -> x < y
      [] op = <<"=", "=">> -> x = y
      [] op = <<"!", "=">> -> x # y
      [] op = <<">", "=">> -> x >= y
      [] OTHER -> x <= y

\* a chain of comparisons x op y op z ...: each pair in turn, stopping at
\* the first that is false
RECURSIVE chain(_, _, _)
chain(segs, ops, k) ==
    LET x == arith(segs[k])
        y == arith(segs[k + 1])
    IN  IF x.exc \/ y.exc THEN PyRaise
        ELSE IF ~compare(ops[k], x.n, y.n) THEN PyBool(FALSE)
        ELSE IF k = Len(ops) THEN PyBool(TRUE)
        ELSE chain(segs, ops, k + 1)

comparison(ws) ==
    LET segs == SplitAt(ws, CompareOps)
        ops == SelectSeq(ws, LAMBDA w : w \in CompareOps)
    IN  IF Len(segs) = 1 THEN arith(ws) ELSE chain(segs, ops, 1)

RECURSIVE not_test(_)
not_test(ws) ==
    IF ws[1] = W_not
    THEN LET r == not_test(Tail(ws))
         IN  IF r.exc THEN PyRaise ELSE PyBool(~r.v)
    ELSE comparison(ws)

\* x and y and ...: the first operand that is false, else the last
RECURSIVE and_test(_, _)
and_test(parts, k) ==
    LET r == not_test(parts[k])
    IN  IF r.exc \/ ~r.v \/ k = Len(parts) THEN r
        ELSE and_test(parts, k + 1)

\* x or y or ...: the first operand that is true, else the last
RECURSIVE or_test(_, _)
or_test(parts, k) ==
    LET r == and_test(SplitAt(parts[k], {W_and}), 1)
    IN  IF r.exc \/ r.v \/ k = Len(parts) THEN r
        ELSE or_test(parts, k + 1)

\* the words evaluated as a Python expression
eval_words(ws) ==
    IF ~SyntaxOk(ws) THEN PyRaise ELSE or_test(SplitAt(ws, {W_or}), 1)

\* eval(condition, {"__builtins__": {}}, {})
py_eval(condition) == eval_words(Words(condition))

\* the first index from `from` on at which s holds p; 0 when there is none
Find(s, p, from) ==
    LET at == {n \in from..(Len(s) - Len(p) + 1) :
                   SubSeq(s, n, n + Len(p) - 1) = p}
    IN  IF at = {} THEN 0 ELSE CHOOSE n \in at : \A m \in at : n <= m

S_if == <<"{", "i", "f">>
S_endif == <<"{", "e", "n", "d", "i", "f", "}">>
S_for == <<"{", "f", "o", "r">>

\* the number of blanks of s from index i on
RECURSIVE SpaceRun(_, _)
SpaceRun(s, i) ==
    IF i <= Len(s) /\ IsSpace(s[i]) THEN 1 + SpaceRun(s, i + 1) ELSE 0

\* the pattern \{if\s+([^}]+)\}(.*?)\{endif\} (DOTALL) matched at index i
\* of s: group 1 runs from the end of the blanks to the first closing
\* brace (when the brace follows the blanks at once, it is the last blank),
\* group 2 runs to the first {endif}
IfMatch(s, i) ==
    LET w == SpaceRun(s, i + 3)
        close == Find(s, <<"}">>, i + 3)
        first == IF close = i + 3 + w THEN close - 1 ELSE i + 3 + w
        endif == IF close = 0 THEN 0 ELSE Find(s, S_endif, close + 1)
        ok == /\ i + 2 <= Len(s)
              /\ SubSeq(s, i, i + 2) = S_if
              /\ w >= 1
              /\ close # 0
              /\ close = i + 3 + w => w >= 2
              /\ endif # 0
    IN  IF ok
        THEN [ok |-> TRUE,
              condition |-> SubSeq(s, first, close - 1),
              content |-> SubSeq(s, close + 1, endif - 1),
              whole |-> SubSeq(s, i, endif + 6),
              end |-> endif + 6]
        ELSE [ok |-> FALSE, condition |-> <<>>, content |-> <<>>,
              whole |-> <<>>, end |-> i]

\* replace_if: the names replaced in the stripped condition, the result
\* evaluated; any exception leaves the block as it is
replace_if(match, context) ==
    LET r == py_eval(replace_names(strip(match.condition), context))
    IN  IF r.exc THEN match.whole
        ELSE IF r.v THEN match.content
        ELSE <<>>

\* re.sub(pattern, replace_if, template) from index i on: every match, left
\* to right, the search going on behind each match
RECURSIVE conditionals_from(_, _, _)
conditionals_from(s, context, i) ==
    IF i > Len(s) THEN <<>>
    ELSE IF IfMatch(s, i).ok
    THEN replace_if(IfMatch(s, i), context)
             \o conditionals_from(s, context, IfMatch(s, i).end + 1)
    ELSE <<s[i]>> \o conditionals_from(s, context, i + 1)

\* TemplateEngine._process_conditionals
process_conditionals(template, context) ==
    conditionals_from(template, context, 1)

S_endfor == <<"{", "e", "n", "d", "f", "o", "r", "}">>

\* \w
IsWordChar(c) == IsAlnum(c) \/ c = "_"

\* the number of word characters of s from index i on
RECURSIVE WordRun(_, _)
WordRun(s, i) ==
    IF i <= Len(s) /\ IsWordChar(s[i]) THEN 1 + WordRun(s, i + 1) ELSE 0

\* the pattern \{for\s+(\w+)\s+in\s+([^}]+)\}(.*?)\{endfor\} (DOTALL)
\* matched at index i of s: group 1 is the run of word characters behind
\* the blanks, group 2 runs from the end of the blanks behind `in` to the
\* first closing brace (when the brace follows the blanks at once, it is
\* the last blank), group 3 runs to the first {endfor}
ForMatch(s, i) ==
    LET w1 == SpaceRun(s, i + 4)
        name == i + 4 + w1
        n == WordRun(s, name)
        w2 == SpaceRun(s, name + n)
        in == name + n + w2
        w3 == SpaceRun(s, in + 2)
        close == Find(s, <<"}">>, in + 2)
        first == IF close = in + 2 + w3 THEN close - 1 ELSE in + 2 + w3
        endfor == IF close = 0 THEN 0 ELSE Find(s, S_endfor, close + 1)
        ok == /\ i + 3 <= Len(s)
              /\ SubSeq(s, i, i + 3) = S_for
              /\ w1 >= 1
              /\ n >= 1
              /\ w2 >= 1
              /\ in + 1 <= Len(s)
              /\ SubSeq(s, in, in + 1) = <<"i", "n">>
              /\ w3 >= 1
              /\ close # 0
              /\ close = in + 2 + w3 => w3 >= 2
              /\ endfor # 0
    IN  IF ok
        THEN [ok |-> TRUE,
              var_name |-> SubSeq(s, name, name + n - 1),
              list_expr |-> SubSeq(s, first, close - 1),
              content |-> SubSeq(s, close + 1, endfor - 1),
              whole |-> SubSeq(s, i, endfor + 7),
              end |-> endfor + 7]
        ELSE [ok |-> FALSE, var_name |-> <<>>, list_expr |-> <<>>,
              content |-> <<>>, whole |-> <<>>, end |-> i]

\* what a call of the engine gives: a text, or an exception that leaves it
Rendered(text) == [exc |-> FALSE, text |-> text]
RenderRaise == [exc |-> TRUE, text |-> <<>>]

RECURSIVE render(_, _)

\* the loop `for item in items` of replace_for: the content rendered with
\* a copy of the context that binds var_name to the item, the results joined
RECURSIVE each_item(_, _, _)
each_item(match, context, items) ==
    IF Len(items) = 0 THEN Rendered(<<>>)
    ELSE LET Both(head, rest) ==
                 IF head.exc THEN head
                 ELSE IF rest.exc THEN rest
                 ELSE Rendered(head.text \o rest.text)
         IN  Both(render(match.content,
                         DictSet(context, match.var_name, items[1])),
                  each_item(match, context, Tail(items)))

\* replace_for: the stripped list expression is looked up in the context;
\* a value that is no list raises TypeError in the for statement, which no
\* except clause covers.  An expression that is no key goes to eval: the
\* expressions here are names, eval raises NameError and the block is left
\* as it is
replace_for(match, context) ==
    LET Items(list_expr) ==
            IF HasKey(context, list_expr)
            THEN IF IsList(context[KeyIndex(context, list_expr)])
                 THEN each_item(match, context,
                                context[KeyIndex(context, list_expr)].v)
                 ELSE RenderRaise
            ELSE Rendered(match.whole)
    IN  Items(strip(match.list_expr))

\* re.sub(pattern, replace_for, template) from index i on: every match,
\* left to right, the search going on behind each match; a match begins
\* with {for, what lies before the next {for is kept as it is
RECURSIVE loops_from(_, _, _)
loops_from(s, context, i) ==
    LET Then(head, next) ==
            IF head.exc THEN head
            ELSE LET rest == loops_from(s, context, next)
                 IN  IF rest.exc THEN rest
                     ELSE Rendered(head.text \o rest.text)
        Kept(j, r) ==
            IF r.exc THEN r ELSE Rendered(SubSeq(s, i, j - 1) \o r.text)
        At(j, match) ==
            IF match.ok
            THEN Kept(j, Then(replace_for(match, context), match.end + 1))
            ELSE Kept(j, Then(Rendered(<<s[j]>>), j + 1))
        From(j) ==
            IF j = 0 THEN Rendered(SubSeq(s, i, Len(s)))
            ELSE At(j, ForMatch(s, j))
    IN  IF i > Len(s) THEN Rendered(<<>>) ELSE From(Find(s, S_for, i))

\* TemplateEngine._process_loops
process_loops(template, context) == loops_from(template, context, 1)

\* TemplateEngine.render: the placeholders, the conditional blocks, the
\* loop blocks
render(template, context) ==
    process_loops(
        process_conditionals(render_vars(template, context), context),
        context)

\* words joined by one blank
RECURSIVE Join(_)
Join(ws) ==
    IF Len(ws) = 0 THEN <<>>
    ELSE IF Len(ws) = 1 THEN ws[1]
    ELSE ws[1] \o <<" ">> \o Join(Tail(ws))

\* variable names and values of the contexts
ContextNames == {<<"n">>, <<"a">>, <<"x">>, <<"n", "n">>}
ContextValues == {0, 5}

\* the contexts: dicts of up to MaxContext entries, in every order
Contexts ==
    {c \in UNION {[1..m -> [k : ContextNames, v : ContextValues]] :
                     m \in 1..MaxContext} :
        \A i, j \in 1..Len(c) : c[i].k = c[j].k => i = j}

\* comparisons of a bound name
Comparisons(context) ==
    UNION {{<<context[n].k, <<">">>, <<"3">>>>,
            <<context[n].k, <<"=", "=">>, <<"0">>>>,
            <<context[n].k, <<"+">>, <<"1">>, <<"<">>, <<"9">>>>} :
              n \in 1..Len(context)}

\* well-formed conditions over the names of a context, as words
Conditions(context) ==
    LET C == Comparisons(context)
    IN  C \cup {<<W_not>> \o c : c \in C}
          \cup {c \o <<W_and>> \o d : c, d \in C}
          \cup {c \o <<W_or>> \o d : c, d \in C}

\* conditions that are no expression: an operand is missing
Malformed(context) ==
    {<<context[n].k, <<">">>>> : n \in 1..Len(context)}
        \cup {<<context[n].k, W_and>> : n \in 1..Len(context)}

T_inner == <<"X">>

\* a template with one conditional block between two characters
BlockTemplate(words) ==
    <<"<">> \o S_if \o <<" ">> \o Join(words) \o <<"}">> \o T_inner
        \o S_endif \o <<">">>

\* the call TemplateEngine.render(template, context)
NewEngine(words, context) ==
    [status |-> "ready", words |-> words, template |-> BlockTemplate(words),
     context |-> context, out |-> <<>>]

\* the call TemplateEngine.render(template, context) returns or raises; the
\* context of the caller is as it was, replace_for works on copies
Render ==
    /\ engine.status = "ready"
    /\ LET Returned(r) ==
                engine' = [engine EXCEPT
                              !.status = IF r.exc THEN "error" ELSE "done",
                              !.out = r.text]
       IN  Returned(render(engine.template, engine.context))
    /\ UNCHANGED <<pc, err, os_name, config, file_contents, templates,
                   variables, fs, stack, stdout, last, lastline, persist,
                   trace, lines, lexer, parser, run1>>

RenderInit ==
    /\ GeneratorOff
    /\ run1 = RunNone
    /\ lexer = LexerIdle
    /\ parser = ParserIdle
    /\ \E context \in Contexts :
         \E words \in Conditions(context) \cup Malformed(context) :
            engine = NewEngine(words, context)

RenderNext == Render

RenderSpec == RenderInit /\ [][RenderNext]_vars

\* the lists of the contexts
LoopLists == {<<>>, <<1>>, <<1, 2>>, <<2, 1>>}

V_L == <<"L">>
V_v == <<"v">>
V_nn == <<"n">>

\* the contexts of the loop templates: a list L, ints v and n, up to
\* MaxContext entries in every order
LoopContexts ==
    {c \in UNION {[1..m -> {KL(V_L, items) : items \in LoopLists}
                            \cup [k : {V_v, V_nn}, v : ContextValues]] :
                     m \in 1..MaxContext} :
        \A i, j \in 1..Len(c) : c[i].k = c[j].k => i = j}

\* bodies of a loop over v: the element, the element in a text, the element
\* twice, the element next to another variable, and no placeholder
LoopBodies ==
    {<<"$", "{", "v", "}">>,
     <<"a", "$", "{", "v", "}", "b">>,
     <<"$", "{", "v", "}", "$", "{", "v", "}">>,
     <<"$", "{", "v", "}", "$", "{", "n", "}">>,
     <<"x">>}

\* the list expressions: the list, an int, and a name that is no key
LoopExprs == {V_L, V_nn, <<"M">>}

\* a template with one loop block between two characters
LoopTemplate(var_name, list_expr, body) ==
    <<"<">> \o S_for \o <<" ">> \o var_name \o <<" ", "i", "n", " ">>
        \o list_expr \o <<"}">> \o body \o S_endfor \o <<">">>

\* the call TemplateEngine.render(template, context) on a loop template
NewLoopEngine(var_name, list_expr, body, context) ==
    [status |-> "ready", words |-> <<>>,
     template |-> LoopTemplate(var_name, list_expr, body),
     context |-> context, out |-> <<>>,
     var_name |-> var_name, list_expr |-> list_expr, body |-> body]

LoopInit ==
    /\ GeneratorOff
    /\ run1 = RunNone
    /\ lexer = LexerIdle
    /\ parser = ParserIdle
    /\ \E context \in LoopContexts, list_expr \in LoopExprs,
          body \in LoopBodies :
            engine = NewLoopEngine(V_v, list_expr, body, context)

LoopSpec == LoopInit /\ [][RenderNext]_vars

(***************************************************************************)
(* The two generators on one program: InteractiveFSGenerator               *)
(* (core/generator.py) runs first, then FileSystemGenerator                *)
(* (core/generator/generator.py, the one build_from_dsl constructs) runs   *)
(* on the same nodes from the same filesystem.  The methods that generate  *)
(* folders, files and loops are the same text in both classes; the         *)
(* constructors differ: FileSystemGenerator starts with no variables.      *)
(***************************************************************************)
N_l_date == <<"l", "$", "{", "d", "a", "t", "e", "}">>
N_var_date == <<"$", "{", "d", "a", "t", "e", "}">>
N_f_date == <<"f", "$", "{", "d", "a", "t", "e", "}">>
T_var_time == <<"$", "{", "t", "i", "m", "e", "}">>

\* programs that name the variables InteractiveFSGenerator seeds: in a file
\* name, in a content, in a folder name, and as the variable of a loop
DatePrograms ==
    { <<FileNode(N_l_date, <<>>)>>,
      <<FileNode(N_a, <<AttrS(K_content, T_var_time)>>)>>,
      <<FolderNode(N_var_date, <<>>, <<FileNode(N_a, <<>>)>>)>>,
      <<ForLoopNode(K_date, 0, 1, 1, "<", <<FileNode(N_f_date, <<>>)>>),
        FileNode(N_l_date, <<>>)>> }

\* the nodes are Folder, File and ForLoop nodes all the way down
RECURSIVE TreeOnly(_)
TreeOnly(nodes) ==
    \A n \in 1..Len(nodes) :
        /\ nodes[n].kind \in {"folder", "file", "for"}
        /\ TreeOnly(nodes[n].children)

\* the programs both generators are run on: those of the three kinds among
\* the loops, the name clashes and the files that are not to be replaced
TreePrograms ==
    {p \in ExamplePrograms \cup ScopePrograms \cup ClashPrograms
            \cup OncePrograms \cup DatePrograms : TreeOnly(p)}

TreeScenarios ==
    {Scenario(p, NoConfig, "posix", f) :
        p \in TreePrograms, f \in StartFS("posix")}

\* InteractiveFSGenerator(base_path, config) on a program of the three kinds
BothInit ==
    /\ pc = "constructed"
    /\ err = ""
    /\ \E sc \in TreeScenarios :
        /\ os_name = sc.os
        /\ config = sc.config
        /\ fs = sc.fs
        /\ stack = <<Frame("top", sc.nodes, base_path)>>
        /\ lines = sc.lines
        /\ run1 = [status |-> "first", nodes |-> sc.nodes, fs |-> sc.fs,
                   trace |-> <<>>, err |-> "", result |-> sc.fs,
                   world |-> <<>>, again |-> <<>>]
    /\ file_contents = config.file_contents
    /\ templates = config.templates
    /\ variables = <<KV(K_date, SeedDate), KV(K_time, SeedTime)>>
    /\ stdout = <<>>
    /\ last = LastNone
    /\ lastline = <<>>
    /\ persist = <<>>
    /\ trace = <<>>
    /\ lexer = LexerIdle
    /\ parser = ParserIdle
    /\ engine = EngineIdle

\* FileSystemGenerator(base_path, config): self.variables = {}
FileSystemGenerator_variables == <<>>

\* the first run is over; FileSystemGenerator is constructed for the same
\* nodes, base path and configuration, on the filesystem as it was
Regenerate ==
    /\ pc \in {"done", "error"}
    /\ run1.status = "first"
    /\ run1' = [run1 EXCEPT !.status = "second", !.trace = trace,
                            !.err = err, !.result = fs]
    /\ pc' = "constructed"
    /\ err' = ""
    /\ variables' = FileSystemGenerator_variables
    /\ fs' = run1.fs
    /\ stack' = <<Frame("top", run1.nodes, base_path)>>
    /\ trace' = <<>>
    /\ last' = LastNone
    /\ UNCHANGED <<os_name, config, file_contents, templates, stdout,
                   lastline, persist, lines, lexer, parser, engine>>

BothNext ==
    \/ Generate
    \/ GenerateFolder
    \/ FolderReturn
    \/ GenerateFile
    \/ ForLoopEnter
    \/ ForLoopCompute
    \/ ForLoopComputed
    \/ ForIterBegin
    \/ ForIterEnd
    \/ ForLoopReturn
    \/ Finish
    \/ Regenerate

BothSpec == BothInit /\ [][BothNext]_vars

(***************************************************************************)
(* Properties.                                                             *)
(***************************************************************************)
Abs(n) == IF n < 0 THEN 0 - n ELSE n

\* C1: the value computation of every ForLoop terminates.  With a step of
\* +1 or -1 the values walk from start in one direction, so a computation
\* that ends has made at most |end - start| + 1 values; one that makes more
\* never meets a false comparison and goes on for ever.
C1_ForLoopTerminates ==
    \A n \in 1..Len(stack) :
        stack[n].kind = "for" =>
            Len(stack[n].values)
                <= Abs(stack[n].node.end - stack[n].node.start) + 1

\* C2: when a ForLoop has finished, the loop variable is bound as it was
\* immediately before the loop: to its previous value, or not at all.
C2_LoopVariableRestored ==
    last.op = "for_return" => Binding(variables, last.var) = last.pre

\* C2 witness: a loop over a variable that was bound before has finished,
\* after an Input in its body had given the variable another value.
C2_Witness ==
    /\ last.op = "for_return"
    /\ last.pre.some
    /\ HasKey(lastline, last.var)
    /\ DictGet(lastline, last.var, <<>>) # last.pre.v

\* C3 as claimed: once an Input on v has executed, v is bound to the line
\* the latest Input on v read, at every later point of the run.
C3_InputBindingPersists ==
    \A n \in 1..Len(lastline) :
        Binding(variables, lastline[n].k) = Bound(lastline[n].v)

\* C3 amended: at every point at which no ForLoop over v is executing, v is
\* bound to the line read by the latest Input on v that ran outside every
\* ForLoop over v.
C3_InputBindingPersistsOutsideLoops ==
    \A n \in 1..Len(persist) :
        ~LoopActive(stack, persist[n].k) =>
            Binding(variables, persist[n].k) = Bound(persist[n].v)

\* C3 witness: a ForLoop over v has finished whose body read another line
\* into v than the Input before the loop had.
C3_Witness ==
    \E n \in 1..Len(persist) :
        /\ ~LoopActive(stack, persist[n].k)
        /\ HasKey(lastline, persist[n].k)
        /\ DictGet(lastline, persist[n].k, <<>>) # persist[n].v
        /\ last.op = "for_return"

\* C4: after each top-level node, date and time hold the values seeded at
\* construction.
C4_SystemEntriesImmutable ==
    (pc = "done" \/ (pc = "run" /\ Len(stack) = 1)) =>
        /\ Binding(variables, K_date) = Bound(SeedDate)
        /\ Binding(variables, K_time) = Bound(SeedTime)

\* C5: the content of a file is resolved by the first rule that matches:
\* the content attribute, the named template when the template map has it,
\* the file-contents entry of the rendered name, the first file-contents key
\* in declaration order that matches the name from its start, the default
\* body of the type.
C5_ContentPrecedence ==
    last.op = "file" =>
        LET a == last.attributes
            n == last.file_name
            r == last.resolved
            tn == DictGet(a, K_template, PyNone)
            HasContent == HasKey(a, K_content)
            TemplateHit ==
                HasKey(a, K_template) /\ tn.t = "str" /\ HasKey(templates, tn.v)
            Exact == HasKey(file_contents, n)
            PatternAt(m) == re_match(file_contents[m].k, n)
            Pattern == \E m \in 1..Len(file_contents) : PatternAt(m)
        IN  /\ HasContent => r = py_str(DictGet(a, K_content, PyNone))
            /\ ~HasContent /\ TemplateHit => r = DictGet(templates, tn.v, <<>>)
            /\ ~HasContent /\ ~TemplateHit /\ Exact =>
                    r = DictGet(file_contents, n, <<>>)
            /\ ~HasContent /\ ~TemplateHit /\ ~Exact /\ Pattern =>
                    \E m \in 1..Len(file_contents) :
                        /\ PatternAt(m)
                        /\ \A q \in 1..(m - 1) : ~PatternAt(q)
                        /\ r = file_contents[m].v
            /\ ~HasContent /\ ~TemplateHit /\ ~Exact /\ ~Pattern =>
                    r = DefaultBody(DictGet(a, K_type, Val("FileType", T_text)), n)

\* C5 witness: a file without content attribute, whose template attribute
\* names a missing template and whose name is no file-contents key, took the
\* value of the second key, the first one not matching and a later one
\* matching too.
C5_Witness ==
    /\ last.op = "file"
    /\ ~HasKey(last.attributes, K_content)
    /\ HasKey(last.attributes, K_template)
    /\ ~HasKey(templates, DictGet(last.attributes, K_template, PyNone).v)
    /\ ~HasKey(file_contents, last.file_name)
    /\ Len(file_contents) >= 4
    /\ ~re_match(file_contents[1].k, last.file_name)
    /\ re_match(file_contents[2].k, last.file_name)
    /\ re_match(file_contents[4].k, last.file_name)
    /\ last.resolved = file_contents[2].v

\* C6: a file written from a statement with content="s", s holding no bound
\* placeholder, contains exactly s.
C6_ContentVerbatim ==
    (last.op = "file" /\ last.stage = "done") =>
        \A n \in 1..Len(last.src) :
            ( /\ last.src[n].k = K_content
              /\ last.src[n].tok.type = "STRING"
              /\ apply_template_vars(last.src[n].tok.value, variables)
                    = last.src[n].tok.value )
            => fs[last.path].content = last.src[n].tok.value

\* C7: a File node on an existing file with replaceifexists=false leaves the
\* file as it was, raises nothing, and generation goes on; with
\* replaceifexists absent or true the file gets the resolved content.
C7_SkipOrOverwrite ==
    (last.op = "file" /\ last.existed /\ last.before.kind = "file") =>
        LET a == last.attributes
            given == HasKey(a, K_replaceifexists)
            value == DictGet(a, K_replaceifexists, PyNone)
        IN  /\ (given /\ value = PyFalse) =>
                /\ fs[last.path] = last.before
                /\ last.stage = "skip"
                /\ err = ""
                /\ pc = "run"
            /\ (~given \/ value = PyTrue) /\ pc # "error" =>
                /\ fs[last.path].content = last.content
                /\ last.stage = "done"

\* C7 witness: an existing file was skipped and generation is at the next node.
C7_Witness ==
    /\ last.op = "file"
    /\ last.existed
    /\ last.before.kind = "file"
    /\ DictGet(last.attributes, K_replaceifexists, PyNone) = PyFalse
    /\ last.before.content # last.content
    /\ pc = "run"
    /\ Top.idx <= Len(Top.children)

\* C8: a File node without replaceifexists attribute, under a configuration
\* whose defaults set replaceifexists=false, skips an existing file.
C8_DefaultsApply ==
    ( /\ last.op = "file"
      /\ last.existed
      /\ last.before.kind = "file"
      /\ ~HasKey(last.attributes, K_replaceifexists)
      /\ DictGet(config.defaults, K_replaceifexists, PyNone) = PyFalse )
    => fs[last.path] = last.before

\* C9: a permissions attribute written as a permission literal is applied as
\* the octal mode of its digits, wherever the platform applies permissions
\* and the chmod call succeeds.
C9_PermissionTagApplied ==
    ( /\ last.op \in {"file", "folder"}
      /\ last.stage = "done"
      /\ DictGet(last.attributes, K_permissions, PyNone).t = "Permission"
      /\ os_name # "nt"
      /\ last.env.chmod_ok )
    => /\ fs[last.path].chmod
       /\ fs[last.path].mode
            = OctalValue(DictGet(last.attributes, K_permissions, PyNone).v)

\* C10: no failure of an attribute application (hidden, permissions,
\* executable) aborts generation.
C10_AttributeFailuresSwallowed ==
    ~(pc = "error" /\ last.stage = "attributes")

\* the comparison a ForLoop header writes, read off the operator itself
Holds(op, x, e) ==
    \/ op = "<" /\ x < e
    \/ op = "<=" /\ x <= e
    \/ op = ">" /\ x > e
    \/ op = ">=" /\ x >= e
    \/ op = "!=" /\ x # e

\* C19: once the value computation of a ForLoop has ended, its values are
\* the longest prefix of start, start+step, ... whose every element satisfies
\* the comparison with end (start..end for `<=`, start..end-1 for `<`, with
\* step +1; none when start fails the comparison); they stay so whatever the
\* body does, and each iteration binds the variable to the decimal text of
\* its value.
C19_LoopValues ==
    /\ \A n \in 1..Len(stack) :
        (stack[n].kind = "for" /\ stack[n].phase # "compute") =>
            LET f == stack[n]
                nd == f.node
                count == Len(f.values)
            IN  /\ \A k \in 1..count :
                    /\ f.values[k] = nd.start + (k - 1) * nd.step
                    /\ Holds(nd.condition, f.values[k], nd.end)
                /\ ~Holds(nd.condition, nd.start + count * nd.step, nd.end)
                /\ (nd.step = 1 /\ nd.condition = "<=" /\ nd.start <= nd.end)
                        => count = nd.end - nd.start + 1
                /\ (nd.step = 1 /\ nd.condition = "<" /\ nd.start <= nd.end)
                        => count = nd.end - nd.start
                /\ ~Holds(nd.condition, nd.start, nd.end) => count = 0
    /\ last.op = "for_begin" =>
            Binding(variables, last.var)
                = Bound(IntToStr(Top.node.start + (Top.vi - 1) * Top.node.step))

\* C19 witness: the second iteration of a loop begins after an Input of the
\* first iteration's body had bound the loop variable to a line.
C19_Witness ==
    /\ last.op = "for_begin"
    /\ Top.vi = 2
    /\ HasKey(lastline, last.var)
    /\ Top.node.condition = "<"
    /\ Len(Top.values) = Top.node.end - Top.node.start

\* the paths of the directories and files generated so far, the base
\* directory aside
TracePaths == [n \in 1..(Len(trace) - 1) |-> trace[n + 1].path]

IsPrefix(s, t) == Len(s) <= Len(t) /\ SubSeq(t, 1, Len(s)) = s

\* document order: the paths a node list names, a folder before its children,
\* the children in source order, the iterations of a loop one after the
\* other in value order, each with its whole body
RECURSIVE DocOrder(_, _, _, _)
RECURSIVE LoopOrder(_, _, _, _, _, _)
DocOrder(os, nodes, path, env) ==
    IF Len(nodes) = 0 THEN <<>>
    ELSE LET nd == Head(nodes)
             rest == DocOrder(os, Tail(nodes), path, env)
             p == path_join(os, path, apply_template_vars(nd.name, env))
         IN  CASE nd.kind = "folder" ->
                    <<p>> \o DocOrder(os, nd.children, p, env) \o rest
               [] nd.kind = "file" -> <<p>> \o rest
               [] nd.kind = "for" ->
                    LoopOrder(os, nd, path, env, nd.start, 0) \o rest
               [] OTHER -> rest

LoopOrder(os, nd, path, env, x, k) ==
    IF Holds(nd.condition, x, nd.end) /\ k < MaxValues
    THEN DocOrder(os, nd.children, path, DictSet(env, nd.var_name, IntToStr(x)))
            \o LoopOrder(os, nd, path, env, x + nd.step, k + 1)
    ELSE <<>>

UnderBase(os, p) ==
    \/ p = resolve(os, base_path)
    \/ StartsWith(p, resolve(os, base_path) \o <<Sep(os)>>)

\* C15: every directory and file generation creates or writes lies under
\* the base path, whatever the names of the Folder and File nodes are, as
\* written or after substitution.
C15_UnderBasePath ==
    \A p \in DOMAIN fs : UnderBase(os_name, p)

\* index of the first } of s, 0 when it has none
FirstClose(s) ==
    IF \E n \in 1..Len(s) : s[n] = "}"
    THEN CHOOSE n \in 1..Len(s) : s[n] = "}" /\ \A m \in 1..(n - 1) : s[m] # "}"
    ELSE 0

\* substitution as claimed: every ${name} with name bound becomes the
\* binding's value, everything else stays
RECURSIVE Substituted(_, _)
Substituted(text, env) ==
    IF Len(text) = 0 THEN <<>>
    ELSE LET close == FirstClose(text)
             name == SubSeq(text, 3, close - 1)
         IN  IF /\ StartsWith(text, <<"$", "{">>)
                /\ close > 0
                /\ HasKey(env, name)
             THEN DictGet(env, name, <<>>) \o Substituted(Drop(text, close), env)
             ELSE <<text[1]>> \o Substituted(Tail(text), env)

\* C16: template substitution replaces every ${name} whose name is bound
\* with the binding's value, leaves unbound placeholders as they are and
\* returns a text without placeholders unchanged: the line an Output node
\* prints is its message so substituted.
C16_SubstitutionLiteral ==
    last.op = "output" =>
        /\ pc # "error"
        /\ stdout[Len(stdout)] = Substituted(last.resolved, variables)

\* the string opened at position q (from 0) is never closed: no later quote
\* stands after an even number of backslashes
UnterminatedString(text, q) ==
    /\ q + 1 <= Len(text)
    /\ text[q + 1] = "\""
    /\ ~\E j \in (q + 2)..Len(text) :
            /\ text[j] = "\""
            /\ \E k \in 0..(j - q - 2) :
                  /\ k % 2 = 0
                  /\ \A m \in (j - k)..(j - 1) : text[m] = "\\"
                  /\ (j - k - 1 > q + 1) => text[j - k - 1] # "\\"

\* the placeholder opened at position q (from 0) is never closed: after no
\* character are its braces balanced
UnterminatedPlaceholder(text, q) ==
    /\ q + 2 <= Len(text)
    /\ text[q + 1] = "$"
    /\ text[q + 2] = "{"
    /\ \A j \in (q + 2)..Len(text) :
            Cardinality({m \in (q + 3)..j : text[m] = "}"})
                <= Cardinality({m \in (q + 3)..j : text[m] = "{"})

EofCount(tokens) == Cardinality({n \in 1..Len(tokens) : tokens[n].type = "EOF"})

\* C18: tokenize terminates on every source text: every round of its loop
\* moves the position forward or ends the call, within the text; it ends
\* with a token sequence whose last token and no other is EOF, or with a
\* LexError, and with a LexError exactly when the construct it was reading
\* is an unterminated string or an unterminated ${ placeholder; every other
\* character, a character no token starts with included, is read.
C18_TokenizeTerminates ==
    [][ /\ lexer.status = "run"
        /\ lexer'.pos > lexer.pos \/ lexer'.status \in {"done", "error"}
        /\ lexer'.pos <= Len(lexer.text)
        /\ lexer'.text = lexer.text
        /\ lexer'.status \in {"run", "done", "error"}
        /\ lexer'.status = "run" => EofCount(lexer'.tokens) = 0
        /\ lexer'.status = "done" =>
              /\ lexer'.pos = Len(lexer.text)
              /\ EofCount(lexer'.tokens) = 1
              /\ lexer'.tokens[Len(lexer'.tokens)].type = "EOF"
        /\ lexer'.status = "error" <=>
              \/ UnterminatedString(lexer.text, lexer'.start)
              \/ UnterminatedPlaceholder(lexer.text, lexer'.start)
      ]_lexer

\* C18 witness: a text of quotes, backslashes and a character no token
\* starts with has been tokenized to the end.
C18_Witness ==
    /\ lexer.status = "done"
    /\ lexer.text = Src_comment
    /\ Len(lexer.tokens) = 2
    /\ lexer.tokens[1].value = <<"a", "\\", "\"", "b">>

\* C11: tokenization and parsing run to completion before generation
\* begins: nothing follows a LexError or a ParseError, and the generator is
\* constructed, and the filesystem touched, only once tokenize and parse
\* have returned; so a source with an error anywhere leaves the filesystem
\* as it was, the base path included.
C11_ErrorsBeforeGeneration ==
    [][ /\ lexer.status # "error"
        /\ parser.status # "error"
        /\ (fs' # fs \/ pc' # pc \/ trace' # trace) =>
              (lexer.status = "done" /\ parser.status = "done")
      ]_vars

\* C11 witness: a source whose first statement is a folder and whose last
\* statement lacks its closing brace has failed in parse, at the EOF token;
\* no generator was made and the filesystem is empty.
C11_Witness ==
    /\ parser.status = "error"
    /\ parser.err = "ParseError"
    /\ lexer.variant = "cli"
    /\ lexer.text = Src_no_brace
    /\ parser.pos = Len(parser.tokens) - 1
    /\ pc = "off"
    /\ fs = EmptyFS

\* C12: the parser never reads past end-of-input: its position never
\* exceeds the index of the final EOF token, parse ends by returning or by
\* raising its error, and parse on the empty token stream returns an empty
\* node sequence.
C12_NeverPastEnd ==
    parser.status \in {"done", "error"} =>
        /\ parser.pos <= Len(parser.tokens) - 1
        /\ parser.err \in {"", "ParseError", "ValueError"}
        /\ Len(parser.tokens) <= 1 =>
              (parser.status = "done" /\ parser.nodes = <<>>)

\* C13: on every token stream the tokenizer produces, parse returns a node
\* sequence or fails with a ParseError carrying the line and column of the
\* offending token, number tokens with dots included.
C13_OnlyParseErrors ==
    (lexer.status = "done" /\ parser.status = "error") =>
        /\ parser.err = "ParseError"
        /\ parser.line = parser.tokens[parser.pos + 1].line
        /\ parser.column = parser.tokens[parser.pos + 1].column

\* the words with every bound name replaced, as a word, by its value
BindWords(words, context) ==
    [n \in 1..Len(words) |->
        IF HasKey(context, words[n])
        THEN IntToStr(DictGet(context, words[n], 0))
        ELSE words[n]]

\* what render is to give for the block template of an engine
ExpectedOut(e) ==
    IF ~SyntaxOk(e.words) THEN e.template
    ELSE IF eval_words(BindWords(e.words, e.context)).v
    THEN <<"<">> \o T_inner \o <<">">>
    ELSE <<"<", ">">>

\* C20: render keeps the inner text of a conditional block exactly when its
\* well-formed expression is true under the values of the context, removes
\* the block when it is false, whatever the names of the variables, and
\* leaves the block as it is only when the expression is malformed.
C20_ConditionalBlocks ==
    engine.status = "done" => engine.out = ExpectedOut(engine)

\* the number of newline characters among the first n characters of text
RECURSIVE Newlines(_, _)
Newlines(text, n) ==
    IF n = 0 THEN 0
    ELSE Newlines(text, n - 1) + (IF text[n] = "\n" THEN 1 ELSE 0)

\* C22: the line number of every token, EOF included, is 1 plus the number
\* of newline characters before the token's first character, also after a
\* string or a placeholder that spans several lines.
C22_TokenLines ==
    [][ Len(lexer'.tokens) > Len(lexer.tokens) =>
          lexer'.tokens[Len(lexer'.tokens)].line =
              1 + Newlines(lexer.text, lexer'.start)
      ]_lexer

\* one pass over the text: each ${name} of a bound name gives way to the
\* value, and the scan goes on behind the placeholder
RECURSIVE substitute_once(_, _)
substitute_once(text, env) ==
    IF Len(text) = 0 THEN <<>>
    ELSE IF \E n \in 1..Len(env) : StartsWith(text, Placeholder(env[n].k))
    THEN LET n == CHOOSE m \in 1..Len(env) :
                      StartsWith(text, Placeholder(env[m].k))
         IN  env[n].v \o substitute_once(Drop(text, Len(env[n].k) + 3), env)
    ELSE <<text[1]>> \o substitute_once(Tail(text), env)

\* no value of the environment holds a backslash
PlainValues(env) ==
    \A n \in 1..Len(env) : \A m \in 1..Len(env[n].v) : env[n].v[m] # "\\"

\* C23: substitution is one pass over the input text: an inserted value is
\* not scanned for placeholders, so the order of the environment does not
\* matter; with x bound to the text ${i} and i bound to 1, ${x} renders as
\* ${i}.
C23_SinglePass ==
    (last.op = "output" /\ pc # "error" /\ PlainValues(variables)) =>
        stdout[Len(stdout)] = substitute_once(last.resolved, variables)

\* the entries of the trace that are files at the path of entry k
SamePath(k) ==
    {j \in 1..Len(trace) :
        /\ trace[j].op = "file"
        /\ resolve(os_name, trace[j].path) = resolve(os_name, trace[k].path)}

\* the file node of a trace entry has replaceifexists=false
KeepsExisting(j) ==
    DictGet(trace[j].attributes, K_replaceifexists, PyTrue) = PyFalse

SameWorld(n) ==
    \A j \in 1..n :
        j <= Len(run1.world) => run1.again[j] = run1.world[j]

\* C25: on a program of Folder, File and ForLoop nodes the two generators do
\* the same when the platform treats them the same: the run of
\* FileSystemGenerator visits the folders and files the run of
\* InteractiveFSGenerator visited, in the same order, with the same paths,
\* contents and outcomes and the same values of the loop variables at each
\* visit, and it ends with the same filesystem and the same exception or
\* none.  The time a default body is stamped with is one text in both runs.
C25_GeneratorsAgree ==
    run1.status = "second" =>
        /\ \A k \in 1..Len(trace) :
                SameWorld(k - 1) =>
                    /\ k <= Len(run1.trace)
                    /\ trace[k] = run1.trace[k]
        /\ (pc \in {"done", "error"} /\ SameWorld(Len(run1.again))) =>
                /\ Len(trace) = Len(run1.trace)
                /\ fs = run1.result
                /\ err = run1.err

\* the context as an environment of texts: every value as str gives it
TextEnv(context) ==
    [n \in 1..Len(context) |-> KV(context[n].k, str_value(context[n]))]

\* the bodies of a loop block, one per item, each with its placeholders
\* replaced under the context that binds var_name to the item
RECURSIVE Bodies(_, _)
Bodies(e, items) ==
    IF Len(items) = 0 THEN <<>>
    ELSE substitute_once(e.body,
                         TextEnv(DictSet(e.context, e.var_name, items[1])))
             \o Bodies(e, Tail(items))

\* the loop of a loop template runs over a list of the context
OverList(e) ==
    /\ HasKey(e.context, e.list_expr)
    /\ IsList(e.context[KeyIndex(e.context, e.list_expr)])

\* C21: a loop block {for v in L}body{endfor} renders as the bodies of the
\* elements of L in their order, one after the other, each with ${v} as
\* the element, also when the context of the call binds v to another value;
\* the context of the call is as it was.
C21_LoopBlocks ==
    (engine.status # "ready" /\ OverList(engine)) =>
        /\ engine.status = "done"
        /\ engine.out =
              <<"<">> \o Bodies(engine,
                                DictGet(engine.context, engine.list_expr, <<>>))
                     \o <<">">>

====
